---- MODULE Spec2Model ----
(***************************************************************************)
(* Network-Config-Auditor: the configuration analysis engine.              *)
(*                                                                         *)
(* Two builds of the engine are modelled side by side:                     *)
(*   "full"     backend/src/services/analyzer.js  (one argument; separate  *)
(*              unused-interface check; four best-practice checks)         *)
(*   "password" unnamed/part_004, lines 1-564     (optional credential;    *)
(*              comment skipping; one best-practice check)                 *)
(* The second copy in part_004 (lines 565-913) is the "password" build     *)
(* without the credential, the comment skipping and the ten later          *)
(* dictionary entries; it has no behaviour of its own and is not modelled. *)
(*                                                                         *)
(* Three specifications share the state:                                   *)
(*   Spec          analyzeConfiguration taken step by step, both builds    *)
(*   PasswordSpec  analyzePasswordStrength called on its own, and the      *)
(*                 line-based check on the same credential                 *)
(*   RouteSpec     the request handlers of routes/analyze.js and           *)
(*                 routes/devices.js around the engine                     *)
(*                                                                         *)
(* Texts are TLA+ strings; Len, \o and SubSeq act on them character by     *)
(* character, so trim / split / startsWith / includes / replace are        *)
(* computed the way the JavaScript runtime computes them.                  *)
(***************************************************************************)
EXTENDS Integers, Sequences, FiniteSets, TLC

(***************************************************************************)
(* Bounds of the exploration.                                              *)
(***************************************************************************)
MaxLines == 3
MaxChunks == 2
MaxFindings == 40
MaxCredentials == 2

(***************************************************************************)
(* JavaScript values that are not strings.                                 *)
(***************************************************************************)
Null == "<null>"
Undefined == "<undefined>"

Falsy(v) == v \in {Null, Undefined, ""}

(***************************************************************************)
(* String primitives (ECMAScript String.prototype).                        *)
(***************************************************************************)
CharAt(s, k) == SubSeq(s, k, k)

WhiteSpace == {" ", "\t", "\r", "\n"}

RECURSIVE TrimStart(_)
TrimStart(s) ==
  IF Len(s) > 0 /\ CharAt(s, 1) \in WhiteSpace
    THEN TrimStart(SubSeq(s, 2, Len(s)))
    ELSE s

RECURSIVE TrimEnd(_)
TrimEnd(s) ==
  IF Len(s) > 0 /\ CharAt(s, Len(s)) \in WhiteSpace
    THEN TrimEnd(SubSeq(s, 1, Len(s) - 1))
    ELSE s

Trim(s) == TrimEnd(TrimStart(s))

StartsWith(s, p) == Len(s) >= Len(p) /\ SubSeq(s, 1, Len(p)) = p

\* index (1-based) of the first occurrence of p in s, 0 when there is none
IndexOf(s, p) ==
  LET hits == {k \in 1..(Len(s) - Len(p) + 1) : SubSeq(s, k, k + Len(p) - 1) = p}
  IN IF hits = {} THEN 0 ELSE CHOOSE k \in hits : \A j \in hits : k <= j

Includes(s, p) == IndexOf(s, p) # 0

\* String.prototype.replace with a string pattern: first occurrence only
Replace(s, p, r) ==
  LET k == IndexOf(s, p)
  IN IF k = 0 THEN s
     ELSE SubSeq(s, 1, k - 1) \o r \o SubSeq(s, k + Len(p), Len(s))

\* String.prototype.split with a one-character separator
RECURSIVE Split(_, _)
Split(s, sep) ==
  LET k == IndexOf(s, sep)
  IN IF k = 0 THEN <<s>>
     ELSE <<SubSeq(s, 1, k - 1)>> \o Split(SubSeq(s, k + 1, Len(s)), sep)

\* Array.prototype.join
RECURSIVE Join(_, _)
Join(arr, sep) ==
  IF Len(arr) = 0 THEN ""
  ELSE IF Len(arr) = 1 THEN arr[1]
  ELSE arr[1] \o sep \o Join(Tail(arr), sep)

\* arr[k] with a 0-based JavaScript index: undefined outside the array
ArrayAt(arr, k) == IF k + 1 \in 1..Len(arr) THEN arr[k + 1] ELSE Undefined

UpperChars == <<"A","B","C","D","E","F","G","H","I","J","K","L","M",
                "N","O","P","Q","R","S","T","U","V","W","X","Y","Z">>
LowerChars == <<"a","b","c","d","e","f","g","h","i","j","k","l","m",
                "n","o","p","q","r","s","t","u","v","w","x","y","z">>
DigitChars == {"0","1","2","3","4","5","6","7","8","9"}

IsUpper(c) == \E k \in 1..26 : UpperChars[k] = c
IsLower(c) == \E k \in 1..26 : LowerChars[k] = c
IsDigit(c) == c \in DigitChars

LowerChar(c) ==
  IF IsUpper(c) THEN LowerChars[CHOOSE k \in 1..26 : UpperChars[k] = c] ELSE c

RECURSIVE ToLowerCase(_)
ToLowerCase(s) ==
  IF Len(s) = 0 THEN ""
  ELSE LowerChar(CharAt(s, 1)) \o ToLowerCase(SubSeq(s, 2, Len(s)))

SomeChar(s, P(_)) == \E k \in 1..Len(s) : P(CharAt(s, k))
EveryChar(s, P(_)) == \A k \in 1..Len(s) : P(CharAt(s, k))


(***************************************************************************)
(* The two builds.                                                         *)
(***************************************************************************)
Variants == {"full", "password"}

(***************************************************************************)
(* parseConfiguration: one forward pass over the trimmed lines.  The two   *)
(* block pointers are references into config.interfaces / config.vtyLines; *)
(* they are kept as 1-based positions in those lists, 0 standing for null. *)
(* A parser state is [config, currentInterface, currentVTY].               *)
(***************************************************************************)
EmptyConfig ==
  [interfaces |-> <<>>, vtyLines |-> <<>>, acls |-> <<>>,
   summary |-> [totalInterfaces |-> 0, totalVTYLines |-> 0, totalACLs |-> 0]]

FreshParserState ==
  [config |-> EmptyConfig, currentInterface |-> 0, currentVTY |-> 0]

NewInterface(v, line, i) ==
  IF v = "full"
    THEN [name |-> Replace(line, "interface ", ""), ipAddress |-> Null,
          status |-> "unknown", acl |-> Null, lineNumber |-> i + 1]
    ELSE [name |-> Replace(line, "interface ", ""),
          status |-> "unknown", acl |-> Null, lineNumber |-> i + 1]

NewVTY(line, i) ==
  [range |-> Replace(line, "line vty ", ""), password |-> Null,
   transport |-> <<>>, accessClass |-> Null, lineNumber |-> i + 1]

\* comment lines the "password" build skips entirely (continue)
IsFallbackComment(line) ==
  /\ StartsWith(Trim(line), "!")
  /\ \/ Includes(line, "Fallback Mode")
     \/ Includes(line, "fallback")
     \/ Includes(line, "recommendations")
     \/ Includes(line, "Best Practices")
     \/ Includes(line, "demonstration")

OpenInterface(v, s, line, i) ==
  IF StartsWith(line, "interface ")
    THEN [s EXCEPT
           !.config.interfaces = Append(@, NewInterface(v, line, i)),
           !.config.summary.totalInterfaces = @ + 1,
           !.currentInterface = Len(s.config.interfaces) + 1]
    ELSE s

SetIpAddress(s, line) ==
  IF s.currentInterface # 0 /\ Includes(line, "ip address ")
    THEN [s EXCEPT !.config.interfaces[s.currentInterface].ipAddress =
                      Trim(Replace(line, "ip address ", ""))]
    ELSE s

\* mutant: the status goes to the last interface of the list, open or not
SetStatusOfLast(s, line) ==
  LET n == Len(s.config.interfaces)
  IN IF n > 0 /\ line = "no shutdown"
       THEN [s EXCEPT !.config.interfaces[n].status = "active"]
     ELSE IF n > 0 /\ line = "shutdown"
       THEN [s EXCEPT !.config.interfaces[n].status = "shutdown"]
     ELSE s

SetStatus(s, line) ==
  LET a == IF s.currentInterface # 0 /\ line = "no shutdown"
             THEN [s EXCEPT !.config.interfaces[s.currentInterface].status = "active"]
             ELSE s
  IN IF a.currentInterface # 0 /\ line = "shutdown"
       THEN [a EXCEPT !.config.interfaces[a.currentInterface].status = "shutdown"]
       ELSE a

SetInterfaceAcl(s, line) ==
  IF s.currentInterface # 0 /\ Includes(line, "ip access-group")
    THEN [s EXCEPT !.config.interfaces[s.currentInterface].acl =
                      ArrayAt(Split(line, " "), 2)]
    ELSE s

OpenVTY(s, line, i) ==
  IF StartsWith(line, "line vty")
    THEN [s EXCEPT
           !.config.vtyLines = Append(@, NewVTY(line, i)),
           !.config.summary.totalVTYLines = @ + 1,
           !.currentVTY = Len(s.config.vtyLines) + 1]
    ELSE s

SetVTYPassword(s, line) ==
  IF s.currentVTY # 0 /\ StartsWith(line, "password ")
    THEN [s EXCEPT !.config.vtyLines[s.currentVTY].password =
                      Trim(Replace(line, "password ", ""))]
    ELSE s

SetVTYTransport(s, line) ==
  IF s.currentVTY # 0 /\ Includes(line, "transport input")
    THEN [s EXCEPT !.config.vtyLines[s.currentVTY].transport =
                      Split(Replace(line, "transport input ", ""), " ")]
    ELSE s

SetAccessClass(s, line) ==
  IF s.currentVTY # 0 /\ Includes(line, "access-class")
    THEN [s EXCEPT !.config.vtyLines[s.currentVTY].accessClass =
                      ArrayAt(Split(line, " "), 1)]
    ELSE s

\* mutant: the ACL is stored but not counted
AddAclUncounted(s, line) ==
  IF StartsWith(line, "access-list ") \/ StartsWith(line, "ip access-list")
    THEN [s EXCEPT !.config.acls = Append(@, line)]
    ELSE s

AddAcl(s, line) ==
  IF StartsWith(line, "access-list ") \/ StartsWith(line, "ip access-list")
    THEN [s EXCEPT !.config.acls = Append(@, line),
                   !.config.summary.totalACLs = @ + 1]
    ELSE s

\* mutant: the sentinel closes the interface block only
ResetInterfaceOnly(s, line) ==
  IF line = "!"
    THEN [s EXCEPT !.currentInterface = 0]
    ELSE s

ResetContext(s, line) ==
  IF line = "!"
    THEN [s EXCEPT !.currentInterface = 0, !.currentVTY = 0]
    ELSE s

\* the body of the for loop for lines[i] (i is the 0-based loop index)
parseLine(v, s, line, i) ==
  IF v = "full"
    THEN ResetContext(AddAcl(SetAccessClass(SetVTYTransport(SetVTYPassword(
           OpenVTY(SetInterfaceAcl(SetStatus(SetIpAddress(
             OpenInterface(v, s, line, i), line), line), line),
           line, i), line), line), line), line), line)
    ELSE IF IsFallbackComment(line) THEN s
    ELSE ResetContext(AddAcl(SetVTYTransport(SetVTYPassword(
           OpenVTY(SetStatus(OpenInterface(v, s, line, i), line), line, i),
           line), line), line), line)

(***************************************************************************)
(* State.                                                                  *)
(*   WEAK_PASSWORDS   module-level dictionary of each build                *)
(*   scn              the family of inputs the environment draws from      *)
(*   pc               position inside analyzeConfiguration                 *)
(*   variant, configText, userPassword   the current call and its inputs   *)
(*   lines, i, config, currentInterface, currentVTY   locals of the call   *)
(*                    and of parseConfiguration                            *)
(*   results          the results object under construction                *)
(*   memo             history: input and result of one finished call       *)
(*   pwPc, pwArg, pwResult   a direct call of analyzePasswordStrength: its *)
(*                    position, its argument and its return value          *)
(*   pwFindings       what detectWeakPasswords of each build reports for   *)
(*                    the directive "password <pwArg>"                     *)
(*   rtPc, request, engineArg, response   the request handlers of the      *)
(*                    backend: position of the handler, the request, the   *)
(*                    text analyzeConfiguration was invoked on, the reply  *)
(*   scPc, counts, tierScores   a direct call of calculateSecurityScore    *)
(*                    per strength tier: position, the four severity       *)
(*                    counters passed in, the score returned for each tier *)
(*   handlerPc, autoFetchPc, credential, attempts, detectorSsh   the       *)
(*                    requests to POST /api/network/analyze in flight: the *)
(*                    handler and the autoFetch call of each, the          *)
(*                    credential autoFetch is at, every fetchConfiguration *)
(*                    call it started, and whether the one SSH client of   *)
(*                    the module-level RouterDetector is connected         *)
(*   connectorSsh     whether the SSH client of the module-level           *)
(*                    DeviceConnector is connected                         *)
(***************************************************************************)
VARIABLES WEAK_PASSWORDS, scn, pc, variant, configText, userPassword,
          lines, i, config, currentInterface, currentVTY, results, memo,
          pwPc, pwArg, pwResult, pwFindings,
          rtPc, request, engineArg, response,
          scPc, counts, tierScores,
          handlerPc, autoFetchPc, credential, attempts, detectorSsh,
          connectorSsh

cnVars == <<connectorSsh>>

dtVars == <<handlerPc, autoFetchPc, credential, attempts, detectorSsh>>

scVars == <<scPc, counts, tierScores>>

rtVars == <<rtPc, request, engineArg, response>>

pwVars == <<pwPc, pwArg, pwResult, pwFindings>>

vars == <<WEAK_PASSWORDS, scn, pc, variant, configText, userPassword,
          lines, i, config, currentInterface, currentVTY, results, memo,
          pwPc, pwArg, pwResult, pwFindings,
          rtPc, request, engineArg, response,
          scPc, counts, tierScores,
          handlerPc, autoFetchPc, credential, attempts, detectorSsh,
          connectorSsh>>

WeakPasswordLists ==
  [full |-> <<"cisco", "admin", "password", "123456", "letmein",
              "welcome", "default", "secret", "changeme", "12345">>,
   password |-> <<"cisco", "admin", "password", "123456", "letmein",
                  "welcome", "default", "secret", "changeme", "12345",
                  "1234", "12345678", "qwerty", "abc123", "password123",
                  "admin123", "root", "user", "pass", "123">>]

\* Array.prototype.includes
ArrayIncludes(arr, x) == \E k \in 1..Len(arr) : arr[k] = x

(***************************************************************************)
(* Issues.  description and recommendation are fixed texts per kind of     *)
(* finding (the description repeats the line number and the subject that   *)
(* location and title already carry) and are left out of the record.       *)
(***************************************************************************)
Issue(sev, cat, title, loc, cve) ==
  [severity |-> sev, category |-> cat, title |-> title,
   location |-> loc, cve |-> cve]

\* mutant: the loop index is used as it is, 0-based
LineLocOfIndex(index) == "Line " \o ToString(index)

LineLoc(index) == "Line " \o ToString(index + 1)

\* template-literal interpolation of a value that may be undefined or null
Interp(x) ==
  IF x = Undefined THEN "undefined" ELSE IF x = Null THEN "null" ELSE x

RECURSIVE Concat(_)
Concat(ss) == IF Len(ss) = 0 THEN <<>> ELSE Head(ss) \o Concat(Tail(ss))

\* concatenation of F(arr[k], k-1) over the array, in order (forEach + push)
FlatMap(arr, F(_, _)) == Concat([k \in 1..Len(arr) |-> F(arr[k], k - 1)])

(***************************************************************************)
(* detectWeakPasswords                                                     *)
(***************************************************************************)
\* comment lines the "password" build does not scan for credentials
IsSkippedPasswordLine(line) ==
  /\ StartsWith(Trim(line), "!")
  /\ \/ Includes(line, "Fallback Mode")
     \/ Includes(line, "fallback")
     \/ Includes(line, "demonstration")
     \/ Includes(line, "recommendations")

\* mutant: only lines containing "secret " are scanned
IsSecretLine(line) == Includes(line, "secret ")

IsCredentialLine(line) ==
  StartsWith(line, "password ") \/ Includes(line, "secret ")

\* mutant: the credential is taken one token too far
CredentialOfNextToken(line) == ArrayAt(Split(line, " "), 2)

CredentialOf(line) == ArrayAt(Split(line, " "), 1)

WeakPasswordIssue(password, index) ==
  Issue("CRITICAL", "Weak Authentication",
        "Weak password detected: \"" \o Interp(password) \o "\"",
        LineLoc(index), "CWE-521")

ShortPasswordIssue(index) ==
  Issue("HIGH", "Weak Authentication", "Password too short",
        LineLoc(index), "CWE-521")

EnablePasswordIssue(index) ==
  Issue("HIGH", "Weak Authentication", "Unencrypted enable password",
        LineLoc(index), "CWE-256")

IsShortPassword(password) == Len(password) < 8

CredentialIssues(v, password, index) ==
  (IF ArrayIncludes(WEAK_PASSWORDS[v], password)
     THEN <<WeakPasswordIssue(password, index)>> ELSE <<>>)
  \o (IF IsShortPassword(password) THEN <<ShortPasswordIssue(index)>> ELSE <<>>)

EnablePasswordIssues(line, index) ==
  IF StartsWith(line, "enable password ")
    THEN <<EnablePasswordIssue(index)>> ELSE <<>>

\* the forEach callback of detectWeakPasswords for one line
WeakPasswordsOfLine(v, line, index) ==
  IF v = "full"
    THEN (IF IsCredentialLine(line)
            THEN CredentialIssues(v, CredentialOf(line), index) ELSE <<>>)
         \o EnablePasswordIssues(line, index)
    ELSE IF IsSkippedPasswordLine(line) THEN <<>>
    ELSE IF IsCredentialLine(line)
      THEN (IF Falsy(CredentialOf(line)) \/ Includes(CredentialOf(line), "!")
              THEN <<>>
              ELSE CredentialIssues(v, CredentialOf(line), index)
                   \o EnablePasswordIssues(line, index))
      ELSE EnablePasswordIssues(line, index)

\* TypeError: password.length is read although split(' ')[1] is undefined
WeakPasswordsOfLineThrows(v, line) ==
  /\ v = "full"
  /\ IsCredentialLine(line)
  /\ CredentialOf(line) \in {Undefined, Null}

detectWeakPasswords(v, ls) ==
  LET F(line, index) == WeakPasswordsOfLine(v, line, index)
  IN FlatMap(ls, F)

detectWeakPasswordsThrows(v, ls) ==
  \E k \in 1..Len(ls) : WeakPasswordsOfLineThrows(v, ls[k])

(***************************************************************************)
(* checkOpenPorts                                                          *)
(***************************************************************************)
IsSkippedServiceLine(line) ==
  /\ StartsWith(Trim(line), "!")
  /\ \/ Includes(line, "Fallback Mode")
     \/ Includes(line, "fallback")
     \/ Includes(line, "recommendations")
     \/ Includes(line, "Best Practices")

EnablesTelnet(line) ==
  Includes(line, "transport input telnet") \/ Includes(line, "transport input all")

EnablesHttp(v, line) ==
  /\ Includes(line, "ip http server")
  /\ ~StartsWith(line, "no ")
  /\ v = "password" => ~Includes(line, "!")

TelnetIssue(index) ==
  Issue("CRITICAL", "Insecure Service", "Telnet enabled", LineLoc(index), "CWE-319")

HttpIssue(index) ==
  Issue("HIGH", "Insecure Service", "HTTP server enabled", LineLoc(index), "CWE-319")

OpenPortsOfLine(v, line, index) ==
  IF v = "password" /\ IsSkippedServiceLine(line) THEN <<>>
  ELSE (IF EnablesTelnet(line) THEN <<TelnetIssue(index)>> ELSE <<>>)
       \o (IF EnablesHttp(v, line) THEN <<HttpIssue(index)>> ELSE <<>>)

checkOpenPorts(v, ls) ==
  LET F(line, index) == OpenPortsOfLine(v, line, index)
  IN FlatMap(ls, F)

(***************************************************************************)
(* analyzeACLs and findUnusedInterfaces                                    *)
(***************************************************************************)
NoAccessClassIssue(vty) ==
  Issue("HIGH", "Missing Access Control", "No access-class on VTY line",
        "Line " \o ToString(vty.lineNumber), "CWE-284")

NoAclIssue(iface) ==
  Issue("MEDIUM", "Missing Access Control",
        "No ACL on interface " \o iface.name,
        "Line " \o ToString(iface.lineNumber), "CWE-284")

\* mutant: a severity outside the closed set
InfoInterfaceIssue(iface) ==
  Issue("INFO", "Configuration Optimization",
        "Unused interface: " \o iface.name,
        "Line " \o ToString(iface.lineNumber), "N/A")

UnusedInterfaceIssue(iface) ==
  Issue("LOW", "Configuration Optimization",
        "Unused interface: " \o iface.name,
        "Line " \o ToString(iface.lineNumber), "N/A")

\* mutant: the access-class check is dropped
NoVTYIssues(vty) == <<>>

VTYIssues(vty) ==
  IF Falsy(vty.accessClass) THEN <<NoAccessClassIssue(vty)>> ELSE <<>>

MissingAclIssues(iface) ==
  IF iface.status = "active" /\ Falsy(iface.acl)
    THEN <<NoAclIssue(iface)>> ELSE <<>>

\* mutant: interfaces without a status line are not reported
IsShutdown(iface) == iface.status = "shutdown"

IsUnused(iface) == iface.status = "shutdown" \/ iface.status = "unknown"

UnusedIssues(iface) ==
  IF IsUnused(iface) THEN <<UnusedInterfaceIssue(iface)>> ELSE <<>>

analyzeACLs(v, parsedConfig) ==
  LET V(vty, k) == VTYIssues(vty)
      M(iface, k) == MissingAclIssues(iface)
      MU(iface, k) == MissingAclIssues(iface) \o UnusedIssues(iface)
  IN FlatMap(parsedConfig.vtyLines, V)
     \o (IF v = "full" THEN FlatMap(parsedConfig.interfaces, M)
                       ELSE FlatMap(parsedConfig.interfaces, MU))

\* a separate check in the "full" build only
findUnusedInterfaces(parsedConfig) ==
  LET U(iface, k) == UnusedIssues(iface)
  IN FlatMap(parsedConfig.interfaces, U)

(***************************************************************************)
(* checkSecurityBestPractices                                              *)
(***************************************************************************)
BestPractice(sev, title, cve) ==
  Issue(sev, "Security Best Practice", title, "Global configuration", cve)

\* mutant: no best-practice finding is ever raised
NoBestPractices(v, ls) == <<>>

checkSecurityBestPractices(v, ls) ==
  LET text == Join(ls, "\n")
  IN (IF ~Includes(text, "transport input ssh")
        THEN <<BestPractice("HIGH", "SSH not configured", "N/A")>> ELSE <<>>)
     \o (IF v = "full" /\ ~Includes(text, "banner")
           THEN <<BestPractice("LOW", "No login banner configured", "N/A")>>
           ELSE <<>>)
     \o (IF v = "full" /\ ~Includes(text, "logging")
           THEN <<BestPractice("MEDIUM", "Logging not configured", "N/A")>>
           ELSE <<>>)
     \o (IF v = "full" /\ ~Includes(text, "service password-encryption")
           THEN <<BestPractice("MEDIUM", "Password encryption not enabled", "CWE-256")>>
           ELSE <<>>)

(***************************************************************************)
(* analyzePasswordStrength ("password" build)                              *)
(***************************************************************************)
PasswordIssue(sev, title) ==
  Issue(sev, "Weak Authentication", title, "Router Authentication", "CWE-521")

\* results.passwordAnalysis === null
NoAnalysis == [strength |-> Null, score |-> 0, issues |-> <<>>]

CommonWords == <<"password", "admin", "root", "user", "login", "welcome">>

IsSymbol(c) == ~IsUpper(c) /\ ~IsLower(c) /\ ~IsDigit(c)
IsLetter(c) == IsUpper(c) \/ IsLower(c)

SomeSeverity(issues, sev) == \E k \in 1..Len(issues) : issues[k].severity = sev

\* !password || password.length === 0
\* mutant: only a missing argument counts, the empty string does not
IsAbsent(password) == password \in {Null, Undefined}

IsNoPassword(password) == Falsy(password) \/ Len(password) = 0

\* mutant: the dictionary is searched for the credential as typed
DictionaryKeyExact(password) == password

\* the key looked up in WEAK_PASSWORDS
DictionaryKey(password) == ToLowerCase(password)

\* mutant: a credential of 8 to 11 characters is only a MEDIUM finding
LengthIssuesMedium(password) ==
  IF Len(password) < 8
    THEN <<PasswordIssue("CRITICAL", "Password too short")>>
    ELSE IF Len(password) < 12
      THEN <<PasswordIssue("MEDIUM", "Password should be longer")>>
      ELSE <<>>

LengthIssues(password) ==
  IF Len(password) < 8
    THEN <<PasswordIssue("CRITICAL", "Password too short")>>
    ELSE IF Len(password) < 12
      THEN <<PasswordIssue("HIGH", "Password should be longer")>>
      ELSE <<>>

\* mutant: the length of the credential is not checked
PasswordChecksWithoutLength(password) ==
  (IF Len(password) > 0 /\ EveryChar(password, IsDigit)
     THEN <<PasswordIssue("HIGH", "Password contains only numbers")>> ELSE <<>>)
  \o (IF Len(password) > 0 /\ EveryChar(password, IsLetter)
        THEN <<PasswordIssue("HIGH", "Password contains only letters")>> ELSE <<>>)
  \o (IF \E k \in 1..Len(CommonWords) :
            Includes(ToLowerCase(password), CommonWords[k])
        THEN <<PasswordIssue("HIGH", "Password contains common words")>> ELSE <<>>)

PasswordChecks(password) ==
  LengthIssues(password)
  \o (IF Len(password) > 0 /\ EveryChar(password, IsDigit)
        THEN <<PasswordIssue("HIGH", "Password contains only numbers")>> ELSE <<>>)
  \o (IF Len(password) > 0 /\ EveryChar(password, IsLetter)
        THEN <<PasswordIssue("HIGH", "Password contains only letters")>> ELSE <<>>)
  \o (IF \E k \in 1..Len(CommonWords) :
            Includes(ToLowerCase(password), CommonWords[k])
        THEN <<PasswordIssue("HIGH", "Password contains common words")>> ELSE <<>>)

\* mutant: the length threshold of the STRONG tier is 16
IsComplexFrom16(password) ==
  /\ Len(password) >= 16
  /\ SomeChar(password, IsUpper)
  /\ SomeChar(password, IsLower)
  /\ SomeChar(password, IsDigit)
  /\ SomeChar(password, IsSymbol)

IsComplex(password) ==
  /\ Len(password) >= 12
  /\ SomeChar(password, IsUpper)
  /\ SomeChar(password, IsLower)
  /\ SomeChar(password, IsDigit)
  /\ SomeChar(password, IsSymbol)

analyzePasswordStrength(password) ==
  IF IsNoPassword(password)
    THEN [strength |-> "CRITICAL", score |-> 0,
          issues |-> <<PasswordIssue("CRITICAL", "No password provided")>>]
  ELSE IF ArrayIncludes(WEAK_PASSWORDS["password"], DictionaryKey(password))
    THEN [strength |-> "CRITICAL", score |-> 10,
          issues |-> <<PasswordIssue("CRITICAL",
                         "Very weak password detected: \"" \o password \o "\"")>>]
  ELSE LET issues == PasswordChecks(password)
       IN IF SomeSeverity(issues, "CRITICAL")
            THEN [strength |-> "CRITICAL", score |-> 20, issues |-> issues]
          ELSE IF SomeSeverity(issues, "HIGH")
            THEN [strength |-> "WEAK", score |-> 40, issues |-> issues]
          ELSE IF IsComplex(password)
            THEN [strength |-> "STRONG", score |-> 100, issues |-> issues]
          ELSE IF Len(password) >= 12
            THEN [strength |-> "MODERATE", score |-> 70, issues |-> issues]
          ELSE [strength |-> "STRONG", score |-> 100, issues |-> issues]

(***************************************************************************)
(* calculateSecurityScore and generateRecommendations                      *)
(***************************************************************************)
Max(a, b) == IF a >= b THEN a ELSE b

\* mutant: LOW findings cost nothing
DeductNoLow(base, r, wc, wh, wm, wl) ==
  base - r.critical * wc - r.high * wh - r.medium * wm

Deduct(base, r, wc, wh, wm, wl) ==
  base - r.critical * wc - r.high * wh - r.medium * wm - r.low * wl

\* mutant: the lower clamp is forgotten
NoClamp(score) == score

ClampScore(score) == Max(0, score)

\* mutant: the credential tier is ignored
TierlessScore(r, passwordAnalysis) == ClampScore(Deduct(100, r, 15, 10, 5, 2))

calculateSecurityScore(r, passwordAnalysis) ==
  ClampScore(
    IF passwordAnalysis # NoAnalysis
      THEN IF passwordAnalysis.strength = "CRITICAL" THEN Deduct(20, r, 5, 3, 2, 1)
           ELSE IF passwordAnalysis.strength = "WEAK" THEN Deduct(40, r, 8, 5, 3, 1)
           ELSE IF passwordAnalysis.strength = "MODERATE" THEN Deduct(70, r, 12, 8, 4, 2)
           ELSE Deduct(100, r, 15, 10, 5, 2)
      ELSE Deduct(100, r, 15, 10, 5, 2))

RecUrgent(v) ==
  IF v = "full"
    THEN "URGENT: Address all critical vulnerabilities immediately. These pose severe security risks."
    ELSE "URGENT: Address all critical vulnerabilities immediately."

RecHigh == "HIGH PRIORITY: Fix high-severity issues as soon as possible."

RecPoor(v) ==
  IF v = "full"
    THEN "Overall security posture is poor. Consider a comprehensive security review."
    ELSE "Overall security posture is poor."

RecImprove ==
  "Security posture needs improvement. Focus on high and medium severity issues."

RecGood ==
  "Good security posture! Continue monitoring and maintaining security configurations."

RecRefer(v) ==
  IF v = "full"
    THEN "Refer to Cisco security best practices documentation for detailed guidance."
    ELSE "Refer to Cisco security best practices."

RecAudit(v) ==
  IF v = "full"
    THEN "Regularly audit and update your network configurations."
    ELSE "Regularly audit your network configurations."

PostureLines(v, score) ==
  IF score < 50 THEN <<RecPoor(v)>>
  ELSE IF v = "full" /\ score < 75 THEN <<RecImprove>>
  ELSE IF v = "full" /\ score >= 90 THEN <<RecGood>>
  ELSE <<>>

\* mutant: the two closing lines in the other order
ClosingLinesSwapped(v) == <<RecAudit(v), RecRefer(v)>>

ClosingLines(v) == <<RecRefer(v), RecAudit(v)>>

\* mutant: the HIGH-priority line comes before the URGENT line
RecommendationsHighFirst(v, r) ==
  (IF r.high > 0 THEN <<RecHigh>> ELSE <<>>)
  \o (IF r.critical > 0 THEN <<RecUrgent(v)>> ELSE <<>>)
  \o PostureLines(v, r.securityScore)
  \o ClosingLines(v)

generateRecommendations(v, r) ==
  (IF r.critical > 0 THEN <<RecUrgent(v)>> ELSE <<>>)
  \o (IF r.high > 0 THEN <<RecHigh>> ELSE <<>>)
  \o PostureLines(v, r.securityScore)
  \o ClosingLines(v)

(***************************************************************************)
(* analyzeConfiguration, step by step                                      *)
(***************************************************************************)
EmptySummary == [totalInterfaces |-> 0, totalVTYLines |-> 0, totalACLs |-> 0]

\* the results object as first built.  In the full build configSummary starts
\* as {} and there is no passwordAnalysis key: the key is kept here with the
\* value that stands for null.  securityScore is not set yet (-1).
InitialResults(v) ==
  [totalIssues |-> 0, critical |-> 0, high |-> 0, medium |-> 0, low |-> 0,
   issues |-> <<>>, recommendations |-> <<>>, passwordAnalysis |-> NoAnalysis,
   configSummary |-> EmptySummary, securityScore |-> -1]

SplitLines(text) ==
  LET raw == Split(text, "\n")
  IN [k \in 1..Len(raw) |-> Trim(raw[k])]

\* the switch on issue.severity.toLowerCase() inside the counting loop
CountSeverity(issues, key) ==
  Cardinality({k \in 1..Len(issues) : ToLowerCase(issues[k].severity) = key})

\* mutant: the credential is analysed whenever it is not null, empty or not
PasswordAnalysisOfGiven(v, pw) ==
  IF v = "password" /\ pw # Null THEN analyzePasswordStrength(pw) ELSE NoAnalysis

PasswordAnalysisOf(v, pw) ==
  IF v = "password" /\ ~Falsy(pw) THEN analyzePasswordStrength(pw) ELSE NoAnalysis

AllIssues(v, ls, parsedConfig, analysis) ==
  IF v = "full"
    THEN detectWeakPasswords(v, ls) \o checkOpenPorts(v, ls)
         \o analyzeACLs(v, parsedConfig) \o findUnusedInterfaces(parsedConfig)
         \o checkSecurityBestPractices(v, ls)
    ELSE detectWeakPasswords(v, ls) \o checkOpenPorts(v, ls)
         \o analyzeACLs(v, parsedConfig)
         \o checkSecurityBestPractices(v, ls)
         \o analysis.issues

Counted(r, issues) ==
  [r EXCEPT !.issues = issues,
            !.totalIssues = Len(issues),
            !.critical = CountSeverity(issues, "critical"),
            !.high = CountSeverity(issues, "high"),
            !.medium = CountSeverity(issues, "medium"),
            !.low = CountSeverity(issues, "low")]

(***************************************************************************)
(* analyzeConfiguration as one call, for the callers that only see its     *)
(* outcome (the request handlers).                                         *)
(***************************************************************************)
\* the for loop from index k on; each iteration works on the state the
\* previous one left (the state is computed before the next line is read)
RECURSIVE parseFrom(_, _, _, _)
parseFrom(v, s, ls, k) ==
  IF k >= Len(ls) \/ s.currentInterface < 0 THEN s
  ELSE parseFrom(v, parseLine(v, s, ls[k + 1], k), ls, k + 1)

parseConfiguration(v, ls) == parseFrom(v, FreshParserState, ls, 0).config

analyzeConfigurationThrows(v, text) ==
  detectWeakPasswordsThrows(v, SplitLines(text))

analyzeConfiguration(v, text, pw) ==
  LET ls == SplitLines(text)
      parsedConfig == parseConfiguration(v, ls)
      analysis == PasswordAnalysisOf(v, pw)
      counted == Counted([InitialResults(v) EXCEPT
                            !.configSummary = parsedConfig.summary,
                            !.passwordAnalysis = analysis],
                         AllIssues(v, ls, parsedConfig, analysis))
      scored == [counted EXCEPT !.securityScore =
                   calculateSecurityScore(counted, counted.passwordAnalysis)]
  IN [scored EXCEPT !.recommendations = generateRecommendations(v, scored)]

(***************************************************************************)
(* Inputs.  A scenario is a family of configuration texts: every sequence  *)
(* of at most MaxLines lines of its pool, joined by newlines, plus a few   *)
(* fixed texts; and the credentials a caller may pass along.               *)
(***************************************************************************)
VtyConfig == "line vty 0 4\npassword cisco\ntransport input telnet\n!"

ManyFindings ==
  "password cisco\npassword admin\npassword 12345\n transport input all\nip http server"

Hardened ==
  "service password-encryption\nlogging buffered\nbanner motd #keep out#\n"
  \o "line vty 0 4\n access-class 10 in\n transport input ssh\n!"

Sc(name, pool, fixed, pws, history) ==
  [name |-> name, pool |-> pool, fixed |-> fixed, pws |-> pws, history |-> history]

Scenarios ==
  { Sc("vty",
       {"line vty 0 4", " password cisco", " transport input telnet", "!",
        " access-class 10 in", "interface Gi0/1"},
       {VtyConfig, ManyFindings}, {Null}, FALSE),
    Sc("transport",
       {"line vty 0 4", " transport input telnet ssh", " transport input ssh telnet",
        " transport input all", " transport input ssh", "!"},
       {}, {Null}, FALSE),
    Sc("interfaces",
       {"interface Gi0/1", " no shutdown", " shutdown", " ip access-group 101 in",
        "!", "line vty 0 4"},
       {}, {Null}, FALSE),
    Sc("addresses",
       {"interface Vlan1", " ip address 10.0.0.1 255.0.0.0", " no shutdown",
        "access-list 101 permit ip any any", "ip access-list extended MGMT", "!"},
       {}, {Null}, FALSE),
    Sc("malformed vty",
       {"line vty", "password ", "password  x", "transport input", "access-class",
        "\t!\r"},
       {}, {Null}, FALSE),
    Sc("malformed interface",
       {"interface x", "interface ", "ip access-group", "x secret  ", "secret  y",
        "enable password "},
       {}, {Null}, FALSE),
    Sc("services",
       {"banner motd #keep out#", "logging buffered", "service password-encryption",
        " transport input ssh", "ip http server", "no ip http server"},
       {Hardened}, {Null}, FALSE),
    Sc("odd names",
       {"interface secret 0", "interface ip http server", " shutdown",
        " no shutdown", "!"},
       {}, {Null}, FALSE),
    Sc("comments",
       {"! fallback: ip http server", "! recommendations: transport input telnet",
        "! password cisco", "password cisco", "ip http server !", "!"},
       {}, {Null}, FALSE),
    Sc("secrets",
       {"enable secret Str0ng#Pass99", "enable password Str0ng#Pass99",
        "enable secret cisco", "password Cisco", "username admin secret Str0ng#Pass99",
        "password Str0ng#Pass99"},
       {}, {Null}, FALSE),
    Sc("credentials",
       {"password cisco", " transport input ssh", "interface Gi0/1"},
       {VtyConfig},
       {Null, "", "cisco", "Cisco", "S3cr#t", "abcdefgh1", "Tr0ub4dor&3!XY",
        "abcdefghijkl1", "12345678901234"},
       FALSE),
    Sc("history",
       {"password Cisco", "interface Gi0/1"},
       {}, {Null, "Cisco"}, TRUE) }

LineSeqs(pool, n) == UNION {[1..k -> pool] : k \in 0..n}

TextsOf(sc) == {Join(ls, "\n") : ls \in LineSeqs(sc.pool, MaxLines)} \cup sc.fixed

NoMemo == <<>>

IdleLocals ==
  /\ variant = "none"
  /\ configText = ""
  /\ userPassword = Null
  /\ lines = <<>>
  /\ i = 0
  /\ config = EmptyConfig
  /\ currentInterface = 0
  /\ currentVTY = 0
  /\ results = InitialResults("none")

NoFindings == [v \in Variants |-> <<>>]

\* the engine has not been invoked by the current request
NotInvoked == Null

NoRequest == [path |-> "none", payload |-> Undefined]

NoResponse ==
  [status |-> 0, success |-> FALSE, error |-> Null,
   analysis |-> InitialResults("none")]

\* no request is being handled
RtOff ==
  /\ rtPc = "off"
  /\ request = NoRequest
  /\ engineArg = NotInvoked
  /\ response = NoResponse

\* the requests the network route can have in flight at once
Requests == {1, 2}

Attempts == Requests \X (1..MaxCredentials)

\* a fetchConfiguration call that was not made
NoAttempt == [pc |-> "none", collected |-> FALSE]

\* no request to the network route was received yet
DtOff ==
  /\ handlerPc = [r \in Requests |-> "idle"]
  /\ autoFetchPc = [r \in Requests |-> "off"]
  /\ credential = [r \in Requests |-> 0]
  /\ attempts = [a \in Attempts |-> NoAttempt]
  /\ detectorSsh = FALSE

\* new SSHClient(): not connected
CnOff == connectorSsh = FALSE

NoCounts == [critical |-> 0, high |-> 0, medium |-> 0, low |-> 0]

NoScores == <<>>

\* no direct call of calculateSecurityScore is under way
ScOff ==
  /\ scPc = "off"
  /\ counts = NoCounts
  /\ tierScores = NoScores

\* no direct call of analyzePasswordStrength is under way
PwOff ==
  /\ pwPc = "off"
  /\ pwArg = Null
  /\ pwResult = NoAnalysis
  /\ pwFindings = NoFindings

Init ==
  /\ WEAK_PASSWORDS = WeakPasswordLists
  /\ scn \in Scenarios
  /\ pc = "idle"
  /\ memo = NoMemo
  /\ IdleLocals
  /\ PwOff
  /\ RtOff
  /\ ScOff
  /\ DtOff
  /\ CnOff

\* analyzeConfiguration is entered: lines are split and trimmed, the results
\* object is built and parseConfiguration starts with fresh locals
Call(v, text, pw) ==
  /\ pc = "idle"
  /\ pc' = "parse"
  /\ variant' = v
  /\ configText' = text
  /\ userPassword' = IF v = "full" THEN Null ELSE pw
  /\ lines' = SplitLines(text)
  /\ results' = InitialResults(v)
  /\ i' = 0
  /\ config' = FreshParserState.config
  /\ currentInterface' = FreshParserState.currentInterface
  /\ currentVTY' = FreshParserState.currentVTY
  /\ UNCHANGED <<WEAK_PASSWORDS, scn, memo>>
  /\ UNCHANGED pwVars
  /\ UNCHANGED scVars
  /\ UNCHANGED dtVars
  /\ UNCHANGED cnVars
  /\ UNCHANGED rtVars

\* the loop condition i < lines.length, and its exit
InLoop == pc = "parse" /\ i < Len(lines)
LoopDone == pc = "parse" /\ i = Len(lines)

\* one iteration of the for loop of parseConfiguration
ParseStep ==
  /\ InLoop
  /\ LET s == parseLine(variant,
                        [config |-> config, currentInterface |-> currentInterface,
                         currentVTY |-> currentVTY],
                        lines[i + 1], i)
     IN /\ config' = s.config
        /\ currentInterface' = s.currentInterface
        /\ currentVTY' = s.currentVTY
  /\ i' = i + 1
  /\ UNCHANGED <<WEAK_PASSWORDS, scn, pc, variant, configText, userPassword,
                 lines, results, memo>>
  /\ UNCHANGED pwVars
  /\ UNCHANGED scVars
  /\ UNCHANGED dtVars
  /\ UNCHANGED cnVars
  /\ UNCHANGED rtVars

\* parseConfiguration returns; results.configSummary = parsedConfig.summary
ParseReturn ==
  /\ LoopDone
  /\ results' = [results EXCEPT !.configSummary = config.summary]
  /\ currentInterface' = 0
  /\ currentVTY' = 0
  /\ pc' = "checks"
  /\ UNCHANGED <<WEAK_PASSWORDS, scn, variant, configText, userPassword,
                 lines, i, config, memo>>
  /\ UNCHANGED pwVars
  /\ UNCHANGED scVars
  /\ UNCHANGED dtVars
  /\ UNCHANGED cnVars
  /\ UNCHANGED rtVars

\* mutant: a check that records the credentials it has seen in the dictionary
DictionaryLearns(dict, v, ls) ==
  LET seen == {CredentialOf(ls[k]) : k \in {j \in 1..Len(ls) : IsCredentialLine(ls[j])}}
      new == {c \in seen : ~ArrayIncludes(dict[v], c)}
  IN IF new = {} THEN dict
     ELSE [dict EXCEPT ![v] = Append(@, CHOOSE c \in new : TRUE)]

\* the dictionary after the checks ran over the lines: the checks and the
\* credential analysis only call WEAK_PASSWORDS.includes, nothing writes to it
DictionaryAfterChecks(dict, v, ls) == dict

\* the security checks, the credential analysis, the combined list and the
\* counting loop; a TypeError inside a check leaves the function
RunChecks ==
  /\ pc = "checks"
  /\ IF detectWeakPasswordsThrows(variant, lines)
       THEN /\ pc' = "threw"
            /\ UNCHANGED results
       ELSE LET analysis == PasswordAnalysisOf(variant, userPassword)
            IN /\ results' =
                    Counted([results EXCEPT !.passwordAnalysis = analysis],
                            AllIssues(variant, lines, config, analysis))
               /\ pc' = "score"
  /\ WEAK_PASSWORDS' = DictionaryAfterChecks(WEAK_PASSWORDS, variant, lines)
  /\ UNCHANGED <<scn, variant, configText, userPassword,
                 lines, i, config, currentInterface, currentVTY, memo>>
  /\ UNCHANGED pwVars
  /\ UNCHANGED scVars
  /\ UNCHANGED dtVars
  /\ UNCHANGED cnVars
  /\ UNCHANGED rtVars

\* calculateSecurityScore, then generateRecommendations
Finish ==
  /\ pc = "score"
  /\ LET scored == [results EXCEPT !.securityScore =
                      calculateSecurityScore(results, results.passwordAnalysis)]
     IN results' = [scored EXCEPT !.recommendations =
                      generateRecommendations(variant, scored)]
  /\ pc' = "done"
  /\ UNCHANGED <<WEAK_PASSWORDS, scn, variant, configText, userPassword,
                 lines, i, config, currentInterface, currentVTY, memo>>
  /\ UNCHANGED pwVars
  /\ UNCHANGED scVars
  /\ UNCHANGED dtVars
  /\ UNCHANGED cnVars
  /\ UNCHANGED rtVars

Outcome == [input |-> <<variant, configText, userPassword>>,
            threw |-> (pc = "threw"), result |-> results]

\* the call returns (or the exception reaches the caller); its locals die.
\* In the history scenario one finished call is remembered.
Return ==
  /\ pc \in {"done", "threw"}
  /\ pc' = "idle"
  /\ memo' \in IF scn.history /\ memo = NoMemo THEN {memo, <<Outcome>>} ELSE {memo}
  /\ variant' = "none"
  /\ configText' = ""
  /\ userPassword' = Null
  /\ lines' = <<>>
  /\ i' = 0
  /\ config' = EmptyConfig
  /\ currentInterface' = 0
  /\ currentVTY' = 0
  /\ results' = InitialResults("none")
  /\ UNCHANGED <<WEAK_PASSWORDS, scn>>
  /\ UNCHANGED pwVars
  /\ UNCHANGED scVars
  /\ UNCHANGED dtVars
  /\ UNCHANGED cnVars
  /\ UNCHANGED rtVars

\* a caller invokes the engine on some text, with or without a credential
Enter ==
  /\ pc = "idle"
  /\ \E v \in Variants, text \in TextsOf(scn), pw \in scn.pws : Call(v, text, pw)

Next ==
  \/ Enter
  \/ ParseStep
  \/ ParseReturn
  \/ RunChecks
  \/ Finish
  \/ Return

Spec == Init /\ [][Next]_vars

(***************************************************************************)
(* analyzePasswordStrength called on its own, and the line-based check on  *)
(* the same credential.  Credentials are the concatenations of at most     *)
(* MaxChunks chunks, and a missing argument.                               *)
(***************************************************************************)
Chunks ==
  {"cisco", "Cisco", "admin", "Password", "123", "123456", "abcdefgh1",
   "Tr0ub4", "dor&3!XY", "S3cr#t", "XyZw", "#"}

RECURSIVE JoinChunks(_)
JoinChunks(cs) == IF Len(cs) = 0 THEN "" ELSE Head(cs) \o JoinChunks(Tail(cs))

Credentials ==
  {JoinChunks(cs) : cs \in UNION {[1..k -> Chunks] : k \in 0..MaxChunks}}
  \cup {Null, Undefined}

NoScenario == Sc("none", {}, {}, {Null}, FALSE)

PwInit ==
  /\ WEAK_PASSWORDS = WeakPasswordLists
  /\ scn = NoScenario
  /\ pc = "idle"
  /\ memo = NoMemo
  /\ IdleLocals
  /\ pwPc = "call"
  /\ pwArg \in Credentials
  /\ pwResult = NoAnalysis
  /\ pwFindings = NoFindings
  /\ RtOff
  /\ ScOff
  /\ DtOff
  /\ CnOff

engineVars == <<WEAK_PASSWORDS, scn, pc, variant, configText, userPassword,
                lines, i, config, currentInterface, currentVTY, results, memo>>

\* analyzePasswordStrength(pwArg) runs and returns
AnalyzePassword ==
  /\ pwPc = "call"
  /\ pwResult' = analyzePasswordStrength(pwArg)
  /\ pwPc' = "returned"
  /\ UNCHANGED <<pwArg, pwFindings>>
  /\ UNCHANGED engineVars
  /\ UNCHANGED rtVars
  /\ UNCHANGED scVars
  /\ UNCHANGED dtVars
  /\ UNCHANGED cnVars

\* the directive "password <pwArg>" as analyzeConfiguration splits and trims it
Directive(password) == SplitLines("password " \o password)

\* detectWeakPasswords of each build runs over the directive
ScanDirective ==
  /\ pwPc = "returned"
  /\ pwArg \notin {Null, Undefined}
  /\ ~detectWeakPasswordsThrows("full", Directive(pwArg))
  /\ pwFindings' = [v \in Variants |-> detectWeakPasswords(v, Directive(pwArg))]
  /\ pwPc' = "scanned"
  /\ UNCHANGED <<pwArg, pwResult>>
  /\ UNCHANGED engineVars
  /\ UNCHANGED rtVars
  /\ UNCHANGED scVars
  /\ UNCHANGED dtVars
  /\ UNCHANGED cnVars

PwNext == AnalyzePassword \/ ScanDirective

PasswordSpec == PwInit /\ [][PwNext]_vars

(***************************************************************************)
(* The request handlers that invoke the engine (routes/analyze.js,         *)
(* routes/devices.js); they require services/analyzer, the "full" build.   *)
(* POST /api/scan/network is left out: services/routerScanner, which       *)
(* supplies its text, is not part of the sources.  What a device or a      *)
(* router sends back is the environment's choice.                          *)
(***************************************************************************)
RoutePool == {"", " ", "line vty 0 4", " password cisco", " transport input ssh"}

RouteTexts == {Join(ls, "\n") : ls \in LineSeqs(RoutePool, MaxLines)} \cup {VtyConfig}

\* a JSON value that is not a string
NonString == "<number>"

IsBlank(text) == Len(Trim(text)) = 0

Reply(status, error) ==
  [status |-> status, success |-> FALSE, error |-> error,
   analysis |-> InitialResults("none")]

Success(analysis) ==
  [status |-> 200, success |-> TRUE, error |-> Null, analysis |-> analysis]

\* try { analysis = analyzeConfiguration(text); res.json(...) } catch { 500 }
Analysed(text, failure) ==
  IF analyzeConfigurationThrows("full", text)
    THEN Reply(500, failure)
    ELSE Success(analyzeConfiguration("full", text, Null))

Responds(req, arg, res) ==
  /\ request' = req
  /\ engineArg' = arg
  /\ response' = res
  /\ rtPc' = "responded"

\* POST /api/analyze: a file upload
PostAnalyze ==
  /\ rtPc = "idle"
  /\ \E file \in RouteTexts \cup {Undefined} :
       LET req == [path |-> "/api/analyze", payload |-> file]
       IN IF file = Undefined
            THEN Responds(req, NotInvoked, Reply(400, "No configuration file provided."))
          ELSE IF Falsy(file) \/ IsBlank(file)
            THEN Responds(req, NotInvoked, Reply(400, "Configuration file is empty."))
          ELSE Responds(req, file, Analysed(file, "Failed to analyze configuration file."))
  /\ UNCHANGED engineVars
  /\ UNCHANGED pwVars
  /\ UNCHANGED scVars
  /\ UNCHANGED dtVars
  /\ UNCHANGED cnVars

\* POST /api/analyze-text: the text in a JSON body
PostAnalyzeText ==
  /\ rtPc = "idle"
  /\ \E configTextField \in RouteTexts \cup {Undefined, NonString} :
       LET req == [path |-> "/api/analyze-text", payload |-> configTextField]
       IN IF Falsy(configTextField) \/ configTextField = NonString
            THEN Responds(req, NotInvoked, Reply(400, "No configuration text provided."))
          ELSE IF IsBlank(configTextField)
            THEN Responds(req, NotInvoked, Reply(400, "Configuration text is empty."))
          ELSE Responds(req, configTextField,
                        Analysed(configTextField, "Failed to analyze configuration text."))
  /\ UNCHANGED engineVars
  /\ UNCHANGED pwVars
  /\ UNCHANGED scVars
  /\ UNCHANGED dtVars
  /\ UNCHANGED cnVars


(***************************************************************************)
(* POST /api/devices/connect: DeviceConnector.fetchConfiguration over SSH  *)
(* (the api protocol is not modelled), then the analysis of what the       *)
(* device printed.                                                         *)
(***************************************************************************)
DeviceInfos ==
  {[host |-> "10.0.0.1", username |-> "admin", password |-> "pw", protocol |-> p] :
     p \in {"ssh", "telnet"}}
  \cup {[host |-> "10.0.0.1", username |-> "admin", password |-> Undefined,
         protocol |-> "ssh"]}

\* what the device does: accept the connection or not, and the output of
\* show running-config
DeviceEnvs ==
  {[connects |-> FALSE, stdout |-> "", stderr |-> ""],
   [connects |-> TRUE, stdout |-> "", stderr |-> "% Invalid input detected"]}
  \cup {[connects |-> TRUE, stdout |-> t, stderr |-> ""] : t \in RouteTexts}

Thrown(message) ==
  [threw |-> TRUE, success |-> FALSE, config |-> Undefined, message |-> message]

Fetched(text) ==
  [threw |-> FALSE, success |-> TRUE, config |-> text, message |-> Null]

\* SSHClient.connect, getRunningConfig, disconnect
fetchViaSSH(env) ==
  IF ~env.connects
    THEN Thrown("SSH fetch failed: Failed to connect")
  ELSE IF env.stderr # ""
    THEN Thrown("SSH fetch failed: Failed to fetch config: " \o env.stderr)
  ELSE Fetched(env.stdout)

\* sshClient.ssh.isConnected() when fetchViaSSH has returned or thrown:
\* disconnect is the last statement of the try block
ConnectedAfterFetchViaSSH(env, connected) ==
  IF ~env.connects THEN connected
  ELSE IF env.stderr # "" THEN TRUE
  ELSE FALSE

ConnectedAfterFetch(deviceInfo, env, connected) ==
  IF ToLowerCase(deviceInfo.protocol) = "ssh"
    THEN ConnectedAfterFetchViaSSH(env, connected)
    ELSE connected

fetchConfiguration(deviceInfo, env) ==
  IF ToLowerCase(deviceInfo.protocol) = "ssh"
    THEN fetchViaSSH(env)
    ELSE Thrown("Unsupported protocol: " \o deviceInfo.protocol)

\* the handler up to await connector.fetchConfiguration(deviceInfo)
PostDevicesConnect ==
  /\ rtPc = "idle"
  /\ \E deviceInfo \in DeviceInfos :
       LET req == [path |-> "/api/devices/connect", payload |-> deviceInfo]
       IN IF Falsy(deviceInfo.host) \/ Falsy(deviceInfo.username)
             \/ Falsy(deviceInfo.password)
            THEN Responds(req, NotInvoked,
                          Reply(400, "Missing required fields: host, username, password"))
            ELSE /\ request' = req
                 /\ rtPc' = "fetching"
                 /\ UNCHANGED <<engineArg, response>>
  /\ UNCHANGED engineVars
  /\ UNCHANGED pwVars
  /\ UNCHANGED scVars
  /\ UNCHANGED dtVars
  /\ UNCHANGED cnVars

\* the fetch settles; the handler analyses fetchResult.config and replies
DeviceFetched ==
  /\ rtPc = "fetching"
  /\ \E env \in DeviceEnvs :
       /\ LET fetchResult == fetchConfiguration(request.payload, env)
          IN IF fetchResult.threw
               THEN Responds(request, NotInvoked, Reply(500, fetchResult.message))
             ELSE IF ~fetchResult.success
               THEN Responds(request, NotInvoked,
                             Reply(500, "Failed to fetch configuration from device"))
             ELSE Responds(request, fetchResult.config,
                           Analysed(fetchResult.config, "TypeError"))
       /\ connectorSsh' = ConnectedAfterFetch(request.payload, env, connectorSsh)
  /\ UNCHANGED engineVars
  /\ UNCHANGED pwVars
  /\ UNCHANGED scVars
  /\ UNCHANGED dtVars

(***************************************************************************)
(* POST /api/network/analyze: RouterDetector.autoFetch, or the fallback    *)
(* text when the router cannot be read.  Of the commands tried over SSH    *)
(* only show running-config is modelled.                                   *)
(***************************************************************************)
Gateway == "192.168.1.1"

\* what the network does: the gateway is known or not, the router lets
\* itself be read or not, the services found open, the output of the command
RouterEnvs ==
  {[gateway |-> Undefined, readable |-> FALSE, services |-> <<>>, stdout |-> ""]}
  \cup {[gateway |-> Gateway, readable |-> FALSE, services |-> sv, stdout |-> ""] :
          sv \in {<<>>, <<"SSH", "HTTP">>}}
  \cup {[gateway |-> Gateway, readable |-> TRUE, services |-> <<"SSH">>, stdout |-> t] :
          t \in RouteTexts}

\* the text RouterDetector.fetchConfiguration collects over SSH
CollectedConfig(stdout) ==
  IF Len(stdout) > 50
    THEN "\n! Output from: show running-config\n" \o stdout \o "\n"
    ELSE ""

\* autoFetch resolves only with a collected text of at least 50 characters
AutoFetchResolves(env) ==
  /\ env.gateway # Undefined
  /\ env.readable
  /\ Len(CollectedConfig(env.stdout)) >= 50

FallbackConfig(gateway, services) ==
  "! Router Configuration (Fallback Mode)\n"
  \o "! Gateway IP: " \o gateway \o "\n"
  \o "! Detected Services: "
  \o (IF Len(services) = 0 THEN "None" ELSE Join(services, ", ")) \o "\n"
  \o "! Note: Could not access router directly. Showing general security analysis.\n"
  \o "\n"
  \o "! Network Configuration\n"
  \o "interface GigabitEthernet0/0\n"
  \o " ip address " \o gateway \o " 255.255.255.0\n"
  \o " no shutdown\n"
  \o "\n"
  \o "! Security Settings\n"
  \o "line vty 0 4\n"
  \o " password admin\n"
  \o " transport input telnet\n"
  \o " no access-class\n"
  \o "\n"
  \o "! Services\n"
  \o "ip http server\n"
  \o "\n"
  \o "! This is a fallback configuration for demonstration purposes.\n"
  \o "! Enable SSH on your router for full analysis."

\* the handler up to the race between autoFetch and the 30 s timer
PostNetworkAnalyze ==
  /\ rtPc = "idle"
  /\ \E ssid \in {"HomeNet", Undefined} :
       LET req == [path |-> "/api/network/analyze", payload |-> ssid]
       IN IF Falsy(ssid)
            THEN Responds(req, NotInvoked, Reply(400, "SSID is required"))
            ELSE /\ request' = req
                 /\ rtPc' = "detecting"
                 /\ UNCHANGED <<engineArg, response>>
  /\ UNCHANGED engineVars
  /\ UNCHANGED pwVars
  /\ UNCHANGED scVars
  /\ UNCHANGED dtVars
  /\ UNCHANGED cnVars

\* the race settles; on rejection the fallback text is built, which needs
\* the gateway again; then the analysis and the reply
RouterDetected ==
  /\ rtPc = "detecting"
  /\ \E env \in RouterEnvs :
       IF AutoFetchResolves(env)
         THEN Responds(request, CollectedConfig(env.stdout),
                       Analysed(CollectedConfig(env.stdout), "TypeError"))
       ELSE IF env.gateway = Undefined
         THEN Responds(request, NotInvoked, Reply(500, "Failed to detect gateway"))
       ELSE Responds(request, FallbackConfig(env.gateway, env.services),
                     Analysed(FallbackConfig(env.gateway, env.services), "TypeError"))
  /\ UNCHANGED engineVars
  /\ UNCHANGED pwVars
  /\ UNCHANGED scVars
  /\ UNCHANGED dtVars
  /\ UNCHANGED cnVars

\* the reply is sent; the server waits for the next request
NextRequest ==
  /\ rtPc = "responded"
  /\ rtPc' = "idle"
  /\ request' = NoRequest
  /\ engineArg' = NotInvoked
  /\ response' = NoResponse
  /\ UNCHANGED engineVars
  /\ UNCHANGED pwVars
  /\ UNCHANGED scVars
  /\ UNCHANGED dtVars
  /\ UNCHANGED cnVars

RtInit ==
  /\ WEAK_PASSWORDS = WeakPasswordLists
  /\ scn = NoScenario
  /\ pc = "idle"
  /\ memo = NoMemo
  /\ IdleLocals
  /\ PwOff
  /\ rtPc = "idle"
  /\ request = NoRequest
  /\ engineArg = NotInvoked
  /\ response = NoResponse
  /\ ScOff
  /\ DtOff
  /\ CnOff

RtNext ==
  \/ PostAnalyze
  \/ PostAnalyzeText
  \/ PostDevicesConnect
  \/ DeviceFetched
  \/ PostNetworkAnalyze
  \/ RouterDetected
  \/ NextRequest

RouteSpec == RtInit /\ [][RtNext]_vars

(***************************************************************************)
(* calculateSecurityScore called on its own: the same severity counters    *)
(* scored under each strength tier and without credential.  The counters   *)
(* are those of a result with at most MaxFindings issues.                  *)
(***************************************************************************)
\* a PasswordAnalysis of the given strength; only strength is read
Tier(strength) == [strength |-> strength, score |-> 0, issues |-> <<>>]

Tiers == {"CRITICAL", "WEAK", "MODERATE", "STRONG"}

ScInit ==
  /\ WEAK_PASSWORDS = WeakPasswordLists
  /\ scn = NoScenario
  /\ pc = "idle"
  /\ memo = NoMemo
  /\ IdleLocals
  /\ PwOff
  /\ RtOff
  /\ scPc = "idle"
  /\ counts = NoCounts
  /\ tierScores = NoScores
  /\ DtOff
  /\ CnOff

\* calculateSecurityScore(results, analysis) for each tier, and with null, on
\* the counters of some result
ScoreTiers ==
  /\ scPc = "idle"
  /\ \E c \in 0..MaxFindings :
       \E h \in 0..(MaxFindings - c) :
         \E m \in 0..(MaxFindings - c - h) :
           \E l \in 0..(MaxFindings - c - h - m) :
             LET r == [critical |-> c, high |-> h, medium |-> m, low |-> l]
             IN /\ counts' = r
                /\ tierScores' =
                     [t \in Tiers \cup {Null} |->
                        calculateSecurityScore(
                          r, IF t = Null THEN NoAnalysis ELSE Tier(t))]
  /\ scPc' = "returned"
  /\ UNCHANGED engineVars
  /\ UNCHANGED pwVars
  /\ UNCHANGED rtVars
  /\ UNCHANGED dtVars
  /\ UNCHANGED cnVars

ScNext == ScoreTiers

ScoreSpec == ScInit /\ [][ScNext]_vars

(***************************************************************************)
(* POST /api/network/analyze with requests in flight at once.  Every       *)
(* request runs autoFetch of the one module-level RouterDetector; autoFetch *)
(* tries MaxCredentials credentials, one fetchConfiguration call each,     *)
(* racing every call against a 5 s timer, and the handler races autoFetch  *)
(* against a 30 s timer.  A timer that wins ends the wait, not the call    *)
(* that was waited for.  A fetchConfiguration call first asks the HTTP     *)
(* interface of the router (2 s per endpoint), then uses the SSH client:   *)
(* connect, execCommand, dispose.  The commands tried are one step.        *)
(***************************************************************************)
DtInit ==
  /\ WEAK_PASSWORDS = WeakPasswordLists
  /\ scn = NoScenario
  /\ pc = "idle"
  /\ memo = NoMemo
  /\ IdleLocals
  /\ PwOff
  /\ RtOff
  /\ ScOff
  /\ DtOff
  /\ CnOff

otherVars == <<engineVars, pwVars, rtVars, scVars, cnVars>>

Settled(a) == attempts[a].pc \in {"resolved", "rejected"}

\* the call fetchConfiguration(gatewayIP, username, password) up to its first
\* await, inside fetchOpenWRTConfigHTTP
StartAttempt(r, k) ==
  /\ credential' = [credential EXCEPT ![r] = k]
  /\ attempts' = [attempts EXCEPT ![<<r, k>>].pc = "http"]

\* the for loops of autoFetch go on to the next credential, or run out
NextCredential(r) ==
  IF credential[r] < MaxCredentials
    THEN /\ StartAttempt(r, credential[r] + 1)
         /\ UNCHANGED autoFetchPc
    ELSE /\ autoFetchPc' = [autoFetchPc EXCEPT ![r] = "rejected"]
         /\ UNCHANGED <<credential, attempts>>

\* the handler validates the body, looks at the WiFi connection and calls
\* routerDetector.autoFetch(password), which awaits getGatewayIP
ReceiveRequest(r) ==
  /\ handlerPc[r] = "idle"
  /\ handlerPc' = [handlerPc EXCEPT ![r] = "racing"]
  /\ autoFetchPc' = [autoFetchPc EXCEPT ![r] = "probing"]
  /\ UNCHANGED <<credential, attempts, detectorSsh>>
  /\ UNCHANGED otherVars

\* gateway, ping and port probes: the router is reachable and the first
\* credential is tried, or autoFetch throws
ProbeRouter(r) ==
  /\ autoFetchPc[r] = "probing"
  /\ \/ /\ autoFetchPc' = [autoFetchPc EXCEPT ![r] = "awaiting"]
        /\ StartAttempt(r, 1)
     \/ /\ autoFetchPc' = [autoFetchPc EXCEPT ![r] = "rejected"]
        /\ UNCHANGED <<credential, attempts>>
  /\ UNCHANGED <<handlerPc, detectorSsh>>
  /\ UNCHANGED otherVars

\* fetchOpenWRTConfigHTTP settles: a configuration of more than 100 bytes is
\* returned, or connectSSH calls this.ssh.connect
HttpSettles(a) ==
  /\ attempts[a].pc = "http"
  /\ \E next \in {"resolved", "connect"} :
       attempts' = [attempts EXCEPT ![a].pc = next]
  /\ UNCHANGED <<handlerPc, autoFetchPc, credential, detectorSsh>>
  /\ UNCHANGED otherVars

\* this.ssh.connect settles: the first execCommand is called, or connectSSH
\* returns false and the catch block disposes whatever is connected
ConnectSettles(a) ==
  /\ attempts[a].pc = "connect"
  /\ \/ /\ detectorSsh' = TRUE
        /\ attempts' = [attempts EXCEPT ![a].pc = "exec"]
     \/ /\ attempts' = [attempts EXCEPT ![a].pc =
                          IF detectorSsh THEN "cleanup" ELSE "rejected"]
        /\ UNCHANGED detectorSsh
  /\ UNCHANGED <<handlerPc, autoFetchPc, credential>>
  /\ UNCHANGED otherVars

\* the commands have run: something was collected or not (nothing when the
\* client is no longer connected); this.ssh.dispose is called
ExecSettles(a) ==
  /\ attempts[a].pc = "exec"
  /\ \E collected \in (IF detectorSsh THEN BOOLEAN ELSE {FALSE}) :
       attempts' = [attempts EXCEPT ![a] = [pc |-> "dispose", collected |-> collected]]
  /\ UNCHANGED <<handlerPc, autoFetchPc, credential, detectorSsh>>
  /\ UNCHANGED otherVars

\* this.ssh.dispose settles: the collected text is returned, or the call
\* throws because it is shorter than 50 characters (the catch block then
\* finds the client disconnected, in the same turn of the event loop)
DisposeSettles(a) ==
  /\ attempts[a].pc = "dispose"
  /\ detectorSsh' = FALSE
  /\ attempts' = [attempts EXCEPT ![a].pc =
                    IF attempts[a].collected THEN "resolved" ELSE "rejected"]
  /\ UNCHANGED <<handlerPc, autoFetchPc, credential>>
  /\ UNCHANGED otherVars

\* the dispose of the catch block settles and the error is thrown again
CleanupSettles(a) ==
  /\ attempts[a].pc = "cleanup"
  /\ detectorSsh' = FALSE
  /\ attempts' = [attempts EXCEPT ![a].pc = "rejected"]
  /\ UNCHANGED <<handlerPc, autoFetchPc, credential>>
  /\ UNCHANGED otherVars

\* the race of autoFetch is won by the fetchConfiguration call
AttemptWins(r) ==
  /\ autoFetchPc[r] = "awaiting"
  /\ Settled(<<r, credential[r]>>)
  /\ IF attempts[<<r, credential[r]>>].pc = "resolved"
       THEN /\ autoFetchPc' = [autoFetchPc EXCEPT ![r] = "resolved"]
            /\ UNCHANGED <<credential, attempts>>
       ELSE NextCredential(r)
  /\ UNCHANGED <<handlerPc, detectorSsh>>
  /\ UNCHANGED otherVars

\* the race of autoFetch is won by the 5 s timer: the rejection is caught and
\* the loop continues; the fetchConfiguration call goes on
AttemptTimeout(r) ==
  /\ autoFetchPc[r] = "awaiting"
  /\ ~Settled(<<r, credential[r]>>)
  /\ NextCredential(r)
  /\ UNCHANGED <<handlerPc, detectorSsh>>
  /\ UNCHANGED otherVars

\* the race of the handler is won by autoFetch: the analysis of what it
\* returned, or of the fallback text, and the reply
AutoFetchWins(r) ==
  /\ handlerPc[r] = "racing"
  /\ autoFetchPc[r] \in {"resolved", "rejected"}
  /\ handlerPc' = [handlerPc EXCEPT ![r] = "responded"]
  /\ UNCHANGED <<autoFetchPc, credential, attempts, detectorSsh>>
  /\ UNCHANGED otherVars

\* the race of the handler is won by the 30 s timer: the fallback text is
\* analysed and the reply sent; autoFetch goes on
RequestTimeout(r) ==
  /\ handlerPc[r] = "racing"
  /\ autoFetchPc[r] \notin {"resolved", "rejected"}
  /\ handlerPc' = [handlerPc EXCEPT ![r] = "responded"]
  /\ UNCHANGED <<autoFetchPc, credential, attempts, detectorSsh>>
  /\ UNCHANGED otherVars

DtNext ==
  \/ \E r \in Requests : ReceiveRequest(r)
  \/ \E r \in Requests : ProbeRouter(r)
  \/ \E a \in Attempts : HttpSettles(a)
  \/ \E a \in Attempts : ConnectSettles(a)
  \/ \E a \in Attempts : ExecSettles(a)
  \/ \E a \in Attempts : DisposeSettles(a)
  \/ \E a \in Attempts : CleanupSettles(a)
  \/ \E r \in Requests : AttemptWins(r)
  \/ \E r \in Requests : AttemptTimeout(r)
  \/ \E r \in Requests : AutoFetchWins(r)
  \/ \E r \in Requests : RequestTimeout(r)

DetectorSpec == DtInit /\ [][DtNext]_vars

(***************************************************************************)
(* Properties of the returned AnalysisResult.                              *)
(***************************************************************************)
Returned == pc = "done"

\* the call taken step by step ends as the call taken as a whole
StepwiseAgrees ==
  /\ Returned => results = analyzeConfiguration(variant, configText, userPassword)
  /\ pc = "threw" => analyzeConfigurationThrows(variant, configText)
  /\ Returned => ~analyzeConfigurationThrows(variant, configText)

Min(a, b) == IF a <= b THEN a ELSE b

\* C1: the securityScore of every returned result lies in 0..100, for every
\* text and every optional credential.
C1_ScoreInRange ==
  Returned => results.securityScore \in 0..100

\* a result whose weighted deductions exceed the base, so that the clamp acted
C1_Witness ==
  /\ Returned
  /\ results.securityScore = 0
  /\ 100 < results.critical * 15 + results.high * 10
           + results.medium * 5 + results.low * 2

Severities == {"CRITICAL", "HIGH", "MEDIUM", "LOW"}

NumberOf(issues, sev) ==
  Cardinality({k \in 1..Len(issues) : issues[k].severity = sev})

\* C2: in every returned result the four severity counters add up to
\* totalIssues, which is the length of the issue list; every issue carries one
\* of the four severities and each counter is the number of issues of its
\* severity.
C2_CountersAgree ==
  Returned =>
    /\ results.critical + results.high + results.medium + results.low
         = results.totalIssues
    /\ results.totalIssues = Len(results.issues)
    /\ \A k \in 1..Len(results.issues) : results.issues[k].severity \in Severities
    /\ results.critical = NumberOf(results.issues, "CRITICAL")
    /\ results.high = NumberOf(results.issues, "HIGH")
    /\ results.medium = NumberOf(results.issues, "MEDIUM")
    /\ results.low = NumberOf(results.issues, "LOW")

\* a result with a supplied credential and findings of several severities
C2_Witness ==
  /\ Returned
  /\ results.passwordAnalysis # NoAnalysis
  /\ results.critical > 0 /\ results.high > 0 /\ results.low > 0

\* base and weights (critical, high, medium, low) of a credential tier
C3_Table(strength) ==
  CASE strength = "CRITICAL" -> <<20, 5, 3, 2, 1>>
    [] strength = "WEAK" -> <<40, 8, 5, 3, 1>>
    [] strength = "MODERATE" -> <<70, 12, 8, 4, 2>>
    [] OTHER -> <<100, 15, 10, 5, 2>>

\* C3: the securityScore is base - (critical*wc + high*wh + medium*wm + low*wl)
\* clamped to 0..100, with (100,15,10,5,2) when no credential was analysed or
\* its strength is STRONG, (70,12,8,4,2) for MODERATE, (40,8,5,3,1) for WEAK
\* and (20,5,3,2,1) for CRITICAL.
C3_ScoreFormula ==
  Returned =>
    LET t == C3_Table(results.passwordAnalysis.strength)
    IN results.securityScore =
         Min(100, Max(0, t[1] - (results.critical * t[2] + results.high * t[3]
                                 + results.medium * t[4] + results.low * t[5])))

\* a MODERATE credential together with configuration findings
C3_Witness ==
  /\ Returned
  /\ results.passwordAnalysis.strength = "MODERATE"
  /\ results.high > 0
  /\ results.securityScore \in 1..69

\* C4: a call with the same build, text and credential as a remembered earlier
\* call ends the same way with an identical result, whatever calls ran in
\* between, and no call changes the module-level weak-password dictionaries.
C4_Deterministic ==
  /\ WEAK_PASSWORDS = WeakPasswordLists
  /\ (pc \in {"done", "threw"} /\ memo # NoMemo
      /\ memo[1].input = <<variant, configText, userPassword>>)
       => /\ memo[1].result = results
          /\ memo[1].threw = (pc = "threw")

\* a remembered input analysed again, with findings in its result
C4_Witness ==
  /\ Returned
  /\ memo # NoMemo
  /\ memo[1].input = <<variant, configText, userPassword>>
  /\ results.totalIssues > 1

EmptyInput == configText = "" /\ userPassword = Null

\* C5 as stated: the empty text without credential gives no issue, score 100
\* and an all-zero configSummary.
C5_Original ==
  (Returned /\ EmptyInput) =>
    /\ results.totalIssues = 0
    /\ results.securityScore = 100
    /\ results.configSummary = EmptySummary

\* C5 amended: the empty text without credential gives an all-zero
\* configSummary, but the best-practice check still reports what is absent:
\* one HIGH issue and score 90 in the password build, four issues (one HIGH,
\* two MEDIUM, one LOW) and score 78 in the full build.
C5_EmptyText ==
  (Returned /\ EmptyInput) =>
    /\ results.configSummary = EmptySummary
    /\ \A k \in 1..Len(results.issues) :
         results.issues[k].location = "Global configuration"
    /\ variant = "password" =>
         /\ results.totalIssues = 1 /\ results.high = 1
         /\ results.securityScore = 90
    /\ variant = "full" =>
         /\ results.totalIssues = 4 /\ results.high = 1
         /\ results.medium = 2 /\ results.low = 1
         /\ results.securityScore = 78

C5_Witness == Returned /\ EmptyInput /\ variant = "full"

WellFormed(r) ==
  /\ r.securityScore \in 0..100
  /\ r.totalIssues = Len(r.issues)
  /\ r.critical + r.high + r.medium + r.low = r.totalIssues
  /\ Len(r.recommendations) >= 2
  /\ r.configSummary.totalInterfaces >= 0
  /\ r.configSummary.totalVTYLines >= 0
  /\ r.configSummary.totalACLs >= 0

\* steps a call still has to take before its return statement
StepsLeft ==
  CASE pc = "parse" -> Len(lines) - i + 3
    [] pc = "checks" -> 2
    [] pc = "score" -> 1
    [] OTHER -> 0

Running == pc \in {"parse", "checks", "score"}

\* C6: for every text, malformed lines included, a call never raises, always
\* satisfies the guard of its next step, comes closer to its return with every step, and
\* returns a well-formed result.
C6_NeverRaises ==
  /\ [](pc # "threw")
  /\ [](Returned => WellFormed(results))
  /\ [](Running => (InLoop \/ LoopDone \/ pc = "checks" \/ pc = "score"))
  /\ [][Running => (StepsLeft' < StepsLeft /\ StepsLeft' >= 0)]_vars

\* a directive whose credential token is missing (empty) was analysed
C6_Witness ==
  /\ Returned
  /\ variant = "full"
  /\ \E k \in 1..Len(lines) :
       /\ IsCredentialLine(lines[k])
       /\ CredentialOf(lines[k]) = ""
  /\ \E k \in 1..Len(lines) : lines[k] = "access-class"

HasIssue(sev, cve, loc) ==
  \E k \in 1..Len(results.issues) :
    /\ results.issues[k].severity = sev
    /\ results.issues[k].cve = cve
    /\ results.issues[k].location = loc

\* lines p and t lie in the VTY block opened at line v (no "!" in between)
InVtyBlock(v, p) ==
  /\ v < p
  /\ StartsWith(lines[v], "line vty")
  /\ \A k \in v..p : lines[k] # "!"

\* C7: a VTY block with a line "password cisco" and a line "transport input
\* telnet" yields at least two CRITICAL issues: CWE-521 at the password line
\* and CWE-319 at the transport line.
C7_VtyCriticals ==
  Returned =>
    \A v, p, t \in 1..Len(lines) :
      (/\ InVtyBlock(v, p) /\ InVtyBlock(v, t)
       /\ lines[p] = "password cisco"
       /\ lines[t] = "transport input telnet")
      => /\ results.critical >= 2
         /\ HasIssue("CRITICAL", "CWE-521", "Line " \o ToString(p))
         /\ HasIssue("CRITICAL", "CWE-319", "Line " \o ToString(t))

C7_Witness ==
  /\ Returned
  /\ Len(lines) = 3
  /\ InVtyBlock(1, 2) /\ InVtyBlock(1, 3)
  /\ lines[3] = "password cisco"
  /\ lines[2] = "transport input telnet"

VtyInput == configText = VtyConfig /\ userPassword = Null

\* C8 as stated: the four-line VTY configuration without credential scores in
\* 20..45 through three CRITICAL/HIGH deductions against base 100.
C8_Original ==
  (Returned /\ VtyInput) =>
    /\ results.securityScore \in 20..45
    /\ results.critical + results.high = 3

\* C8 amended: the score is in 20..45, but through five CRITICAL/HIGH
\* deductions against base 100 (two CRITICAL: weak password and Telnet; three
\* HIGH: short password, no access-class, SSH not configured): 40 in the
\* password build, 28 in the full build where two MEDIUM and one LOW
\* best-practice deductions come on top.
C8_VtyScore ==
  (Returned /\ VtyInput) =>
    /\ results.securityScore \in 20..45
    /\ results.critical = 2 /\ results.high = 3
    /\ variant = "password" =>
         /\ results.medium = 0 /\ results.low = 0
         /\ results.securityScore = 40
    /\ variant = "full" =>
         /\ results.medium = 2 /\ results.low = 1
         /\ results.securityScore = 28

C8_Witness == Returned /\ VtyInput /\ variant = "password"

\* C10: the recommendations of every result end with the line referring to
\* the vendor's best practices followed by the line asking for regular
\* audits, also when there is no issue.
C10_ClosingLines ==
  Returned =>
    LET recs == results.recommendations
    IN /\ Len(recs) >= 2
       /\ StartsWith(recs[Len(recs) - 1], "Refer to Cisco security best practices")
       /\ StartsWith(recs[Len(recs)], "Regularly audit")

C10_Witness == Returned /\ results.totalIssues = 0 /\ variant = "full"

IssuesAt(loc, sevs) ==
  {k \in 1..Len(results.issues) :
     results.issues[k].location = loc /\ results.issues[k].severity \in sevs}

OpeningLine(iface) == "Line " \o ToString(iface.lineNumber)

IsUnusedFinding(issue) ==
  issue.severity = "LOW" /\ issue.category = "Configuration Optimization"

ActiveHasNoUnusedFinding(iface) ==
  iface.status = "active" =>
    \A k \in IssuesAt(OpeningLine(iface), {"LOW"}) : ~IsUnusedFinding(results.issues[k])

\* C9 as stated: an interface left shutdown or without status has exactly one
\* LOW issue and no MEDIUM or HIGH issue at its opening line; an active one
\* has no LOW unused-interface issue.
C9_Original ==
  Returned =>
    \A n \in 1..Len(config.interfaces) :
      LET iface == config.interfaces[n]
      IN /\ iface.status \in {"shutdown", "unknown"} =>
              /\ Cardinality(IssuesAt(OpeningLine(iface), {"LOW"})) = 1
              /\ IssuesAt(OpeningLine(iface), {"MEDIUM", "HIGH"}) = {}
         /\ ActiveHasNoUnusedFinding(iface)

\* C9 amended: such an interface has exactly one LOW issue at its opening
\* line and no MEDIUM or HIGH issue of the access-control check there; the
\* line-based checks may still report the text of the opening line itself
\* (interface secret 0, interface ip http server).
C9_UnusedInterfaces ==
  Returned =>
    \A n \in 1..Len(config.interfaces) :
      LET iface == config.interfaces[n]
      IN /\ iface.status \in {"shutdown", "unknown"} =>
              /\ Cardinality(IssuesAt(OpeningLine(iface), {"LOW"})) = 1
              /\ \A k \in IssuesAt(OpeningLine(iface), {"MEDIUM", "HIGH"}) :
                   results.issues[k].category # "Missing Access Control"
         /\ ActiveHasNoUnusedFinding(iface)

\* two interfaces, one shut down and one without status line
C9_Witness ==
  /\ Returned
  /\ \E m, n \in 1..Len(config.interfaces) :
       /\ config.interfaces[m].status = "shutdown"
       /\ config.interfaces[n].status = "unknown"

(***************************************************************************)
(* Order of the combined issue list.                                       *)
(***************************************************************************)
\* position of the check an issue comes from, in the documented order
CheckRank(issue) ==
  CASE issue.category = "Weak Authentication"
         /\ issue.location = "Router Authentication" -> 6
    [] issue.category = "Weak Authentication" -> 1
    [] issue.category = "Insecure Service" -> 2
    [] issue.category = "Missing Access Control" -> 3
    [] issue.category = "Configuration Optimization" -> 4
    [] issue.category = "Security Best Practice" -> 5
    [] OTHER -> 0

\* C11: in the combined issue list the weak-password findings come first, then
\* the insecure-service findings, then the missing-access-control findings
\* (VTY HIGH and interface MEDIUM), then the unused-interface LOW findings,
\* then the best-practice findings, then the issues of the credential
\* analysis, for every input.
C11_IssueOrder ==
  Returned =>
    \A j, k \in 1..Len(results.issues) :
      j < k => /\ CheckRank(results.issues[j]) <= CheckRank(results.issues[k])
               /\ CheckRank(results.issues[j]) # 0

\* the documented order as the build with a separate unused-interface check
\* produces it
IssueOrderOfFullBuild == variant = "full" => C11_IssueOrder

(***************************************************************************)
(* The parser's forward pass.                                              *)
(***************************************************************************)
Cardinalities(c) ==
  [totalInterfaces |-> Len(c.interfaces), totalVTYLines |-> Len(c.vtyLines),
   totalACLs |-> Len(c.acls)]

Parsing == pc = "parse"

Parsed == pc \in {"checks", "score", "done"}

\* C12: after every processed line of the parse, not only at its end, the
\* three summary counters are the lengths of interfaces, vtyLines and acls,
\* and the configSummary of the returned result equals these lengths.
C12_SummaryCounts ==
  /\ (Parsing \/ Parsed) => config.summary = Cardinalities(config)
  /\ Parsed => results.configSummary = Cardinalities(config)

\* in the middle of a pass, an interface and an ACL already recorded
C12_Witness ==
  /\ Parsing
  /\ 0 < i /\ i < Len(lines)
  /\ Len(config.interfaces) > 0
  /\ Len(config.acls) > 0

(***************************************************************************)
(* Properties of analyzePasswordStrength.                                  *)
(***************************************************************************)
PwReturned == pwPc \in {"returned", "scanned"}

\* C13: on an empty or absent credential analyzePasswordStrength returns
\* strength CRITICAL, score 0 and exactly one issue, of severity CRITICAL and
\* titled "No password provided".
C13_NoPassword ==
  (PwReturned /\ pwArg \in {"", Null, Undefined}) =>
    /\ pwResult.strength = "CRITICAL"
    /\ pwResult.score = 0
    /\ Len(pwResult.issues) = 1
    /\ pwResult.issues[1].severity = "CRITICAL"
    /\ pwResult.issues[1].title = "No password provided"

\* the call on the empty string has returned
C13_Witness == PwReturned /\ pwArg = ""

HasClasses(password) ==
  /\ SomeChar(password, IsUpper)
  /\ SomeChar(password, IsLower)
  /\ SomeChar(password, IsDigit)
  /\ SomeChar(password, IsSymbol)

InDictionary(password) ==
  \E k \in 1..Len(WeakPasswordLists.password) :
    WeakPasswordLists.password[k] = ToLowerCase(password)

\* a common word occurs in the credential, in any letter case
HasCommonWord(password) ==
  \E w \in {"password", "admin", "root", "user", "login", "welcome"} :
    Includes(ToLowerCase(password), w)

\* C14: for every credential of at least 12 characters with an uppercase
\* letter, a lowercase letter, a digit and a symbol that is not a dictionary
\* entry and contains none of the common words (in any letter case),
\* analyzePasswordStrength returns STRONG, score 100 and no issue.
C14_StrongPassword ==
  (/\ PwReturned
   /\ pwArg \notin {Null, Undefined}
   /\ Len(pwArg) >= 12
   /\ HasClasses(pwArg)
   /\ ~InDictionary(pwArg)
   /\ ~HasCommonWord(pwArg))
  => /\ pwResult.strength = "STRONG"
     /\ pwResult.score = 100
     /\ pwResult.issues = <<>>

\* the credential of the documented example
C14_Witness ==
  /\ PwReturned
  /\ pwArg = "Tr0ub4dor&3!XY"
  /\ pwResult.strength = "STRONG"

Strengths == {"CRITICAL", "WEAK", "MODERATE", "STRONG"}

\* the issue the dictionary branch returns
IsDictionaryIssue(issue) ==
  issue.severity = "CRITICAL" /\ StartsWith(issue.title, "Very weak password detected")

\* C15: for every non-empty credential strength and score follow from the
\* returned issues: CRITICAL exactly when there is a CRITICAL issue (score 10
\* for the dictionary issue, 20 otherwise), WEAK with score 40 exactly when
\* there is no CRITICAL but a HIGH issue, MODERATE (70) or STRONG (100) only
\* with an empty issue list; the score is in 0..100.
C15_StrengthFromIssues ==
  (PwReturned /\ ~Falsy(pwArg)) =>
    LET r == pwResult
        crit == SomeSeverity(r.issues, "CRITICAL")
        high == SomeSeverity(r.issues, "HIGH")
    IN /\ r.strength \in Strengths
       /\ r.score \in 0..100
       /\ (r.strength = "CRITICAL") <=> crit
       /\ r.strength = "CRITICAL" =>
            r.score = IF \E k \in 1..Len(r.issues) : IsDictionaryIssue(r.issues[k])
                        THEN 10 ELSE 20
       /\ (r.strength = "WEAK") <=> (~crit /\ high)
       /\ r.strength = "WEAK" => r.score = 40
       /\ r.strength = "MODERATE" => (r.score = 70 /\ r.issues = <<>>)
       /\ r.strength = "STRONG" => (r.score = 100 /\ r.issues = <<>>)

\* a WEAK credential with two HIGH issues
C15_Witness ==
  /\ PwReturned
  /\ pwResult.strength = "WEAK"
  /\ Len(pwResult.issues) >= 2

IsExactEntry(password) ==
  \E k \in 1..Len(WeakPasswordLists.password) :
    WeakPasswordLists.password[k] = password

\* the CRITICAL dictionary finding of the line-based check
IsWeakPasswordFinding(issue) ==
  issue.severity = "CRITICAL" /\ StartsWith(issue.title, "Weak password detected")

SomeWeakPasswordFinding(issues) ==
  \E k \in 1..Len(issues) : IsWeakPasswordFinding(issues[k])

DictionaryVerdict(r) ==
  /\ r.strength = "CRITICAL"
  /\ r.score = 10
  /\ Len(r.issues) = 1
  /\ IsDictionaryIssue(r.issues[1])

\* C16: for a credential that equals a dictionary entry only after
\* lowercasing (Cisco), the line-based check reports no CRITICAL dictionary
\* finding for the directive "password <credential>", while
\* analyzePasswordStrength returns CRITICAL, score 10 and exactly one issue,
\* the CRITICAL dictionary issue, without any length or pattern issue; for a
\* credential equal to an entry in exact case both report CRITICAL.
C16_CaseDisagreement ==
  (pwPc = "scanned" /\ InDictionary(pwArg)) =>
    /\ DictionaryVerdict(pwResult)
    /\ \A v \in Variants :
         SomeWeakPasswordFinding(pwFindings[v])
           <=> ArrayIncludes(WeakPasswordLists[v], pwArg)
    /\ ~IsExactEntry(pwArg) =>
         ~SomeWeakPasswordFinding(pwFindings["password"])
    /\ IsExactEntry(pwArg) =>
         SomeWeakPasswordFinding(pwFindings["password"])

\* Cisco: both checks have run, the line-based one found it short only
C16_Witness ==
  /\ pwPc = "scanned"
  /\ pwArg = "Cisco"
  /\ Len(pwFindings["password"]) = 1
  /\ pwFindings["password"][1].severity = "HIGH"

(***************************************************************************)
(* Properties of the request handlers.                                     *)
(***************************************************************************)
Responded == rtPc = "responded"

\* C17: on every request path that invokes the engine, empty or
\* whitespace-only configuration text is rejected before analyzeConfiguration
\* is called: the engine is never invoked on such text, and a reply to a
\* request whose text was blank is an error reply.
C17_BlankTextRejected ==
  Responded =>
    /\ engineArg # NotInvoked => ~IsBlank(engineArg)
    /\ response.success => (engineArg # NotInvoked /\ ~IsBlank(engineArg))

\* the same on the two paths that receive the text in the request itself
BlankTextRejectedInRequest ==
  (Responded /\ request.path \in {"/api/analyze", "/api/analyze-text"}) =>
    /\ engineArg # NotInvoked => ~IsBlank(engineArg)
    /\ (request.payload \in RouteTexts /\ IsBlank(request.payload)) =>
         (response.status = 400 /\ engineArg = NotInvoked)

\* ... and on the path that reads the router of the current network
BlankTextNeverFromRouter ==
  (Responded /\ request.path = "/api/network/analyze") =>
    (engineArg # NotInvoked => ~IsBlank(engineArg))

(***************************************************************************)
(* The parse context.                                                      *)
(***************************************************************************)
OpensInterface(line) == StartsWith(line, "interface ")
OpensVTY(line) == StartsWith(line, "line vty")

\* among the lines processed so far, line a has not been followed by a "!"
StillOpen(a) == \A k \in a..i : lines[k] # "!"

\* an interface opener and a VTY opener, neither yet followed by a "!"
OpenersOverlap ==
  \E a, b \in 1..i :
    /\ OpensInterface(lines[a]) /\ OpensVTY(lines[b])
    /\ StillOpen(a) /\ StillOpen(b)

BothOpen == currentInterface # 0 /\ currentVTY # 0

\* C18 as stated: at every point of the pass the two block pointers are never
\* both non-null, for any sequence of lines.
C18_Original == Parsing => ~BothOpen

\* C18 amended: at every point of the pass the two block pointers are both
\* non-null exactly when an interface line and a line vty line have been
\* processed and no "!" line came after either of them; whenever a "!"
\* separates blocks of different kinds the context is one of NONE,
\* IN_INTERFACE, IN_VTY.
C18_ContextExclusive ==
  Parsing =>
    /\ BothOpen <=> OpenersOverlap
    /\ currentInterface \in 0..Len(config.interfaces)
    /\ currentVTY \in 0..Len(config.vtyLines)

\* an interface block, its "!", then a VTY block: only the VTY block is open
C18_Witness ==
  /\ Parsing
  /\ i = 3
  /\ OpensInterface(lines[1]) /\ lines[2] = "!" /\ OpensVTY(lines[3])
  /\ currentInterface = 0 /\ currentVTY = 1

IsAclLine(line) ==
  StartsWith(line, "access-list ") \/ StartsWith(line, "ip access-list")

\* the line the next iteration processes
NextLine == lines[i + 1]

\* interface n was closed before the next line acts on it: a "!" was processed
\* after its opener, or a later interface line (the next line included)
InterfaceClosed(n) ==
  LET opened == config.interfaces[n].lineNumber
  IN \/ \E k \in (opened + 1)..i : lines[k] = "!" \/ OpensInterface(lines[k])
     \/ OpensInterface(NextLine)

VTYClosed(n) ==
  LET opened == config.vtyLines[n].lineNumber
  IN \/ \E k \in (opened + 1)..i : lines[k] = "!" \/ OpensVTY(lines[k])
     \/ OpensVTY(NextLine)

ParseStepFrame ==
  /\ NextLine = "!" => (currentInterface' = 0 /\ currentVTY' = 0)
  /\ \A n \in 1..Len(config.interfaces) :
       InterfaceClosed(n) =>
         (n <= Len(config'.interfaces) /\ config'.interfaces[n] = config.interfaces[n])
  /\ \A n \in 1..Len(config.vtyLines) :
       VTYClosed(n) =>
         (n <= Len(config'.vtyLines) /\ config'.vtyLines[n] = config.vtyLines[n])
  /\ (/\ currentInterface = 0 /\ currentVTY = 0
      /\ ~OpensInterface(NextLine) /\ ~OpensVTY(NextLine) /\ ~IsAclLine(NextLine))
     => config' = config

\* C19: in every iteration of the pass, a line "!" leaves both block pointers
\* null; an Interface or VTYLine whose block was closed, by a "!" or by a
\* later opener of the same kind, is not changed; and a line processed while
\* no block is open that is neither an opener nor an ACL line leaves the
\* whole ParsedConfig unchanged.
C19_ParserFrame ==
  [][(Parsing /\ i' = i + 1) => ParseStepFrame]_vars

\* a status line after the "!" that closed the only interface: no change
C19_Witness ==
  /\ Parsing
  /\ i = 3
  /\ OpensInterface(lines[1]) /\ lines[2] = "!" /\ lines[3] = "shutdown"
  /\ config.interfaces[1].status = "unknown"
  /\ currentInterface = 0

(***************************************************************************)
(* access-class on VTY blocks.                                             *)
(***************************************************************************)
\* a line of the form access-class <acl> in
IsAccessClassIn(line) ==
  LET tokens == Split(line, " ")
  IN /\ Len(tokens) = 3
     /\ tokens[1] = "access-class"
     /\ tokens[2] # ""
     /\ tokens[3] = "in"

AclOf(line) == Split(line, " ")[2]

\* the lines inside the block opened at line o: after it, before the next "!"
InsideBlock(o) ==
  {k \in (o + 1)..Len(lines) : \A j \in (o + 1)..k : lines[j] # "!"}

NoAccessClassFindingsAt(o) ==
  {k \in 1..Len(results.issues) :
     /\ results.issues[k].severity = "HIGH"
     /\ results.issues[k].cve = "CWE-284"
     /\ results.issues[k].title = "No access-class on VTY line"
     /\ results.issues[k].location = "Line " \o ToString(o)}

AccessClassHonoured(vty) ==
  LET o == vty.lineNumber
      given == {k \in InsideBlock(o) : IsAccessClassIn(lines[k])}
  IN given # {} =>
       /\ \E k \in given : vty.accessClass = AclOf(lines[k])
       /\ NoAccessClassFindingsAt(o) = {}

AccessClassMissed(vty) ==
  LET o == vty.lineNumber
  IN (\A k \in InsideBlock(o) : ~Includes(lines[k], "access-class")) =>
       Cardinality(NoAccessClassFindingsAt(o)) = 1

\* C20: for every VTY block, a line access-class <acl> in inside the block
\* (after its line vty line, before the next "!") gives the parsed VTYLine
\* accessClass = <acl> and no HIGH CWE-284 No-access-class finding; a block
\* without any line containing access-class gets exactly one such finding,
\* located at its opening line.
C20_AccessClass ==
  Returned =>
    \A n \in 1..Len(config.vtyLines) :
      /\ AccessClassHonoured(config.vtyLines[n])
      /\ AccessClassMissed(config.vtyLines[n])

\* what holds in both builds: a block without access-class line is reported
AccessClassMissedEverywhere ==
  Returned =>
    \A n \in 1..Len(config.vtyLines) : AccessClassMissed(config.vtyLines[n])

\* what holds in the build whose parser reads access-class lines: the line
\* is honoured when the block's line vty is the last opener before it and no
\* other line containing access-class follows in the block
AccessClassInFullBuild ==
  (Returned /\ variant = "full") =>
    \A n \in 1..Len(config.vtyLines) :
      LET o == config.vtyLines[n].lineNumber
      IN (/\ \A k \in InsideBlock(o) : ~OpensVTY(lines[k])
          /\ \A k \in InsideBlock(o) :
               Includes(lines[k], "access-class") => IsAccessClassIn(lines[k]))
         => AccessClassHonoured(config.vtyLines[n])

(***************************************************************************)
(* ip access-group on interface blocks.                                    *)
(***************************************************************************)
\* a line of the form ip access-group <acl> in
IsAccessGroupIn(line) ==
  LET tokens == Split(line, " ")
  IN /\ Len(tokens) = 4
     /\ tokens[1] = "ip"
     /\ tokens[2] = "access-group"
     /\ tokens[3] # ""
     /\ tokens[4] = "in"

GroupOf(line) == Split(line, " ")[3]

NoAclFindingsAt(o) ==
  {k \in 1..Len(results.issues) :
     /\ results.issues[k].severity = "MEDIUM"
     /\ results.issues[k].cve = "CWE-284"
     /\ StartsWith(results.issues[k].title, "No ACL on interface")
     /\ results.issues[k].location = "Line " \o ToString(o)}

AccessGroupHonoured(iface) ==
  LET o == iface.lineNumber
      given == {k \in InsideBlock(o) : IsAccessGroupIn(lines[k])}
  IN (iface.status = "active" /\ given # {}) =>
       /\ \E k \in given : iface.acl = GroupOf(lines[k])
       /\ NoAclFindingsAt(o) = {}

AccessGroupMissed(iface) ==
  LET o == iface.lineNumber
  IN (/\ iface.status = "active"
      /\ \A k \in InsideBlock(o) : ~Includes(lines[k], "ip access-group")) =>
       Cardinality(NoAclFindingsAt(o)) = 1

\* C21: for every interface block whose status is active, a line
\* ip access-group <acl> in inside the block gives the parsed Interface
\* acl = <acl> and no MEDIUM CWE-284 No-ACL finding; a block without any
\* ip access-group line gets exactly one such finding, located at its
\* opening line.
C21_AccessGroup ==
  Returned =>
    \A n \in 1..Len(config.interfaces) :
      /\ AccessGroupHonoured(config.interfaces[n])
      /\ AccessGroupMissed(config.interfaces[n])

\* what holds in both builds: an active block without ip access-group line
\* is reported once
AccessGroupMissedEverywhere ==
  Returned =>
    \A n \in 1..Len(config.interfaces) : AccessGroupMissed(config.interfaces[n])

\* what holds in the build whose parser reads ip access-group lines: the line
\* is honoured when the block's interface line is the last opener before it
AccessGroupInFullBuild ==
  (Returned /\ variant = "full") =>
    \A n \in 1..Len(config.interfaces) :
      LET o == config.interfaces[n].lineNumber
      IN (/\ \A k \in InsideBlock(o) : ~OpensInterface(lines[k])
          /\ \A k \in InsideBlock(o) :
               Includes(lines[k], "ip access-group") => IsAccessGroupIn(lines[k]))
         => AccessGroupHonoured(config.interfaces[n])

\* the build without ip access-group handling reports every active interface
AccessGroupNeverReadInPasswordBuild ==
  (Returned /\ variant = "password") =>
    \A n \in 1..Len(config.interfaces) :
      /\ config.interfaces[n].acl = Null
      /\ config.interfaces[n].status = "active" =>
           Cardinality(NoAclFindingsAt(config.interfaces[n].lineNumber)) = 1

(***************************************************************************)
(* Telnet on transport input lines.                                        *)
(***************************************************************************)
\* the protocols a transport input line lists
TransportTokens(line) == Split(Replace(line, "transport input ", ""), " ")

\* a transport input line that admits Telnet: telnet or all among its tokens
ListsTelnet(line) ==
  /\ StartsWith(line, "transport input ")
  /\ \E k \in 1..Len(TransportTokens(line)) :
       TransportTokens(line)[k] \in {"telnet", "all"}

TelnetFindingsAt(n) ==
  {k \in 1..Len(results.issues) :
     /\ results.issues[k].severity = "CRITICAL"
     /\ results.issues[k].category = "Insecure Service"
     /\ results.issues[k].cve = "CWE-319"
     /\ results.issues[k].location = "Line " \o ToString(n)}

\* C22: every transport input line that enables Telnet, listed alone, as
\* all, or mixed with SSH in either token order, yields a CRITICAL Insecure
\* Service (CWE-319) finding at that line; a line transport input ssh alone
\* yields none.
C22_TelnetVariants ==
  Returned =>
    \A n \in 1..Len(lines) :
      /\ ListsTelnet(lines[n]) => TelnetFindingsAt(n) # {}
      /\ lines[n] = "transport input ssh" => TelnetFindingsAt(n) = {}

\* what the substring test does find: telnet or all as the first protocol,
\* once per line; and nothing on transport input ssh
TelnetListedFirst ==
  Returned =>
    \A n \in 1..Len(lines) :
      /\ (ListsTelnet(lines[n]) /\ TransportTokens(lines[n])[1] \in {"telnet", "all"})
           => Cardinality(TelnetFindingsAt(n)) = 1
      /\ lines[n] = "transport input ssh" => TelnetFindingsAt(n) = {}

\* what it misses: telnet listed after another protocol
TelnetListedLater ==
  Returned =>
    \A n \in 1..Len(lines) :
      lines[n] = "transport input ssh telnet" => TelnetFindingsAt(n) = {}

(***************************************************************************)
(* enable secret and enable password.                                      *)
(***************************************************************************)
\* a line of the form enable <keyword> <cred>
IsEnableLine(line, keyword) ==
  LET tokens == Split(line, " ")
  IN /\ Len(tokens) = 3
     /\ tokens[1] = "enable"
     /\ tokens[2] = keyword
     /\ tokens[3] # ""

EnableCredential(line) == Split(line, " ")[3]

WeakAuthenticationAt(n) ==
  {k \in 1..Len(results.issues) :
     /\ results.issues[k].category = "Weak Authentication"
     /\ results.issues[k].location = "Line " \o ToString(n)}

IsSoundCredential(v, cred) ==
  ~ArrayIncludes(WEAK_PASSWORDS[v], cred) /\ Len(cred) >= 8

EnablePasswordReported(n) ==
  IsEnableLine(lines[n], "password") =>
    /\ Cardinality(WeakAuthenticationAt(n)) = 1
    /\ \A k \in WeakAuthenticationAt(n) :
         results.issues[k].severity = "HIGH" /\ results.issues[k].cve = "CWE-256"

\* C23: a line enable secret <cred> whose credential is not in the
\* weak-password dictionary and has at least 8 characters gets no Weak
\* Authentication finding, whereas enable password <cred> always gets exactly
\* the HIGH CWE-256 finding.
C23_EnableSecret ==
  Returned =>
    \A n \in 1..Len(lines) :
      /\ (/\ IsEnableLine(lines[n], "secret")
          /\ IsSoundCredential(variant, EnableCredential(lines[n])))
           => WeakAuthenticationAt(n) = {}
      /\ EnablePasswordReported(n)

\* what the check does with enable secret <cred>: the second token of the
\* line is the word secret itself, a dictionary entry of six characters, so
\* the line gets a CRITICAL and a HIGH CWE-521 finding whatever <cred> is
EnableSecretReported ==
  Returned =>
    \A n \in 1..Len(lines) :
      IsEnableLine(lines[n], "secret") =>
        /\ Cardinality(WeakAuthenticationAt(n)) = 2
        /\ \A k \in WeakAuthenticationAt(n) :
             /\ results.issues[k].cve = "CWE-521"
             /\ results.issues[k].title
                  \in {"Weak password detected: \"secret\"", "Password too short"}

\* the second half of the claim on its own
EnablePasswordAlwaysReported ==
  Returned => \A n \in 1..Len(lines) : EnablePasswordReported(n)

(***************************************************************************)
(* The recommendations list.                                               *)
(***************************************************************************)
PriorityLinesOf(r) ==
  (IF r.critical > 0 THEN <<RecUrgent(variant)>> ELSE <<>>)
  \o (IF r.high > 0 THEN <<RecHigh>> ELSE <<>>)

PoorLineOf(r) ==
  IF r.securityScore < 50 THEN <<RecPoor(variant)>> ELSE <<>>

\* C24 as stated: the list is the CRITICAL-priority line iff critical > 0,
\* the HIGH-priority line iff high > 0, the poor-posture line iff
\* securityScore < 50, then the two closing lines, and nothing else.
C24_Original ==
  Returned =>
    results.recommendations =
      PriorityLinesOf(results) \o PoorLineOf(results)
      \o <<RecRefer(variant), RecAudit(variant)>>

\* C24 amended: the list is the CRITICAL-priority line iff critical > 0, the
\* HIGH-priority line iff high > 0, at most one posture line, then the two
\* closing lines, and nothing else.  The posture line is the poor-posture
\* line iff securityScore < 50; the full build also has a needs-improvement
\* line iff 50 <= securityScore < 75 and a good-posture line iff
\* securityScore >= 90.  The list is a function of (critical, high,
\* securityScore) in each build.
C24_Recommendations ==
  Returned =>
    LET score == results.securityScore
        posture ==
          IF variant = "full" /\ score \in 50..74 THEN <<RecImprove>>
          ELSE IF variant = "full" /\ score >= 90 THEN <<RecGood>>
          ELSE PoorLineOf(results)
    IN results.recommendations =
         PriorityLinesOf(results) \o posture
         \o <<RecRefer(variant), RecAudit(variant)>>

\* both priority lines, the needs-improvement line and the closing lines
C24_Witness ==
  /\ Returned
  /\ variant = "full"
  /\ results.critical > 0 /\ results.high > 0
  /\ results.securityScore \in 50..74
  /\ Len(results.recommendations) = 5

\* in the build with the credential the list is as stated
RecommendationsOfPasswordBuild ==
  (Returned /\ variant = "password") =>
    results.recommendations =
      PriorityLinesOf(results) \o PoorLineOf(results)
      \o <<RecRefer(variant), RecAudit(variant)>>

(***************************************************************************)
(* The credential analysis inside the result.                              *)
(***************************************************************************)
\* the last n issues of the result
LastIssues(n) ==
  SubSeq(results.issues, Len(results.issues) - n + 1, Len(results.issues))

CounterOf(sev) ==
  CASE sev = "CRITICAL" -> results.critical
    [] sev = "HIGH" -> results.high
    [] sev = "MEDIUM" -> results.medium
    [] sev = "LOW" -> results.low

CredentialSupplied == ~Falsy(userPassword)

\* C25: with a non-empty credential, passwordAnalysis is present, the issue
\* list ends with passwordAnalysis.issues in order, and each of them is
\* counted in the severity counters that feed the score, so that a credential
\* of strength CRITICAL gives securityScore <= 15; with no credential or the
\* empty string, passwordAnalysis is null and no issue is located at Router
\* Authentication.
C25_PasswordIssuesFolded ==
  Returned =>
    LET analysis == results.passwordAnalysis
        n == Len(analysis.issues)
    IN IF CredentialSupplied
         THEN /\ analysis # NoAnalysis
              /\ analysis = analyzePasswordStrength(userPassword)
              /\ n <= Len(results.issues)
              /\ LastIssues(n) = analysis.issues
              /\ \A sev \in Severities :
                   CounterOf(sev) =
                     NumberOf(SubSeq(results.issues, 1, Len(results.issues) - n), sev)
                     + NumberOf(analysis.issues, sev)
              /\ analysis.strength = "CRITICAL" =>
                   /\ results.critical >= 1
                   /\ results.securityScore <= 15
         ELSE /\ analysis = NoAnalysis
              /\ \A k \in 1..Len(results.issues) :
                   results.issues[k].location # "Router Authentication"

\* a dictionary credential: base 20 and its own CRITICAL issue at the end
C25_Witness ==
  /\ Returned
  /\ userPassword = "cisco"
  /\ results.passwordAnalysis.strength = "CRITICAL"
  /\ LastIssues(1)[1].location = "Router Authentication"
  /\ results.securityScore <= 15

\* the empty string is treated as no credential
C25_EmptyCredential ==
  /\ Returned
  /\ variant = "password"
  /\ userPassword = ""
  /\ results.passwordAnalysis = NoAnalysis

(***************************************************************************)
(* The strength tiers and the score.                                       *)
(***************************************************************************)
Scored == scPc = "returned"

TierBase(t) ==
  CASE t = "CRITICAL" -> 20 [] t = "WEAK" -> 40 [] t = "MODERATE" -> 70
    [] t = "STRONG" -> 100

WithinBase == \A t \in Tiers : tierScores[t] \in 0..TierBase(t)

NotAbove(weaker, stronger) == tierScores[weaker] <= tierScores[stronger]

\* C26 as stated: for the same counters the score under a weaker tier is never
\* greater than under a stronger one, CRITICAL <= WEAK <= MODERATE <= STRONG,
\* and never exceeds the tier's base.
C26_Original ==
  Scored =>
    /\ NotAbove("CRITICAL", "WEAK")
    /\ NotAbove("WEAK", "MODERATE")
    /\ NotAbove("MODERATE", "STRONG")
    /\ WithinBase

\* C26 amended: the score never exceeds the tier's base, and CRITICAL <= WEAK,
\* CRITICAL <= MODERATE <= STRONG and WEAK <= STRONG for all counters; the
\* WEAK score exceeds the MODERATE score exactly when it is positive
\* (8c + 5h + 3m + l < 40) and 4c + 3h + m + l > 30, which many LOW findings
\* bring about: they cost 1 under WEAK and 2 under MODERATE.
C26_TierMonotone ==
  Scored =>
    /\ WithinBase
    /\ NotAbove("CRITICAL", "WEAK")
    /\ NotAbove("CRITICAL", "MODERATE")
    /\ NotAbove("MODERATE", "STRONG")
    /\ NotAbove("WEAK", "STRONG")
    /\ tierScores[Null] = tierScores["STRONG"]
    /\ ~NotAbove("WEAK", "MODERATE") <=>
         /\ 8 * counts.critical + 5 * counts.high + 3 * counts.medium + counts.low < 40
         /\ 4 * counts.critical + 3 * counts.high + counts.medium + counts.low > 30

\* 31 LOW findings: 9 under WEAK, 8 under MODERATE
C26_Witness ==
  /\ Scored
  /\ counts = [critical |-> 0, high |-> 0, medium |-> 0, low |-> 31]
  /\ tierScores["WEAK"] = 9
  /\ tierScores["MODERATE"] = 8

(***************************************************************************)
(* Short credentials.                                                      *)
(***************************************************************************)
IsShortCredential(password) ==
  /\ password \notin {Null, Undefined}
  /\ Len(password) \in 1..11

\* C27: every non-empty credential shorter than 12 characters receives
\* strength CRITICAL or WEAK, never MODERATE or STRONG; STRONG is returned
\* only for credentials of at least 12 characters with an uppercase letter, a
\* lowercase letter, a digit and a symbol, so the last STRONG case of the
\* derivation (no issue and shorter than 12) is never taken.
C27_ShortNeverStrong ==
  PwReturned =>
    /\ IsShortCredential(pwArg) => pwResult.strength \in {"CRITICAL", "WEAK"}
    /\ pwResult.strength = "STRONG" =>
         /\ pwArg \notin {Null, Undefined}
         /\ Len(pwArg) >= 12
         /\ HasClasses(pwArg)
    /\ pwResult.strength = "MODERATE" =>
         /\ pwArg \notin {Null, Undefined}
         /\ Len(pwArg) >= 12

\* ten characters of all four classes, no dictionary entry, no common
\* word: the length alone makes it WEAK
C27_Witness ==
  /\ PwReturned
  /\ pwArg = "S3cr#tXyZw"
  /\ HasClasses(pwArg)
  /\ pwResult.strength = "WEAK"
  /\ Len(pwResult.issues) = 1

(***************************************************************************)
(* Locations.                                                              *)
(***************************************************************************)
NamedScopes == {"Global configuration", "Router Authentication"}

\* the line-based checks: the text of line n has what the finding reports
TriggersWeakAuthentication(issue, n) ==
  IF issue.cve = "CWE-256"
    THEN StartsWith(lines[n], "enable password ")
    ELSE StartsWith(lines[n], "password ") \/ Includes(lines[n], "secret ")

TriggersInsecureService(issue, n) ==
  IF issue.title = "Telnet enabled"
    THEN \/ Includes(lines[n], "transport input telnet")
         \/ Includes(lines[n], "transport input all")
    ELSE Includes(lines[n], "ip http server")

\* the structural checks: line n opened the block the finding is about
OpensBlockOf(issue, n) ==
  IF issue.title = "No access-class on VTY line"
    THEN OpensVTY(lines[n])
    ELSE /\ OpensInterface(lines[n])
         /\ \E k \in 1..Len(config.interfaces) :
              /\ config.interfaces[k].lineNumber = n
              /\ issue.title \in {"No ACL on interface " \o config.interfaces[k].name,
                                  "Unused interface: " \o config.interfaces[k].name}

PointsAtLine(issue, n) ==
  /\ issue.location = "Line " \o ToString(n)
  /\ CASE issue.category = "Weak Authentication" -> TriggersWeakAuthentication(issue, n)
       [] issue.category = "Insecure Service" -> TriggersInsecureService(issue, n)
       [] issue.category \in {"Missing Access Control", "Configuration Optimization"}
            -> OpensBlockOf(issue, n)
       [] OTHER -> FALSE

\* C28: every issue location of the form Line N has 1 <= N <= number of
\* input lines; for weak-password and insecure-service findings line N is the
\* line that triggered the finding, for access-control and unused-interface
\* findings it is the line that opened the VTY or interface block; every
\* other location is Global configuration or Router Authentication.
C28_Locations ==
  Returned =>
    \A k \in 1..Len(results.issues) :
      \/ /\ results.issues[k].location \in NamedScopes
         /\ results.issues[k].category \in {"Security Best Practice",
                                            "Weak Authentication"}
      \/ \E n \in 1..Len(lines) : PointsAtLine(results.issues[k], n)

\* findings of both line-based checks and of the structural check, each at
\* its own line of the four-line VTY configuration, and one global finding
C28_Witness ==
  /\ Returned
  /\ VtyInput
  /\ \E a, b, c, d \in 1..Len(results.issues) :
       /\ results.issues[a].category = "Weak Authentication"
       /\ results.issues[a].location = "Line 2"
       /\ results.issues[b].category = "Insecure Service"
       /\ results.issues[b].location = "Line 3"
       /\ results.issues[c].category = "Missing Access Control"
       /\ results.issues[c].location = "Line 1"
       /\ results.issues[d].location = "Global configuration"

(***************************************************************************)
(* The SSH client of the RouterDetector.                                   *)
(***************************************************************************)
\* a fetchConfiguration call that is between calling this.ssh.connect and
\* the end of its this.ssh.dispose
Operating(a) == attempts[a].pc \in {"connect", "exec", "dispose", "cleanup"}

\* the wait for the call was ended by a timer: the 5 s timer of autoFetch
\* (autoFetch is at a later credential, or ran out of them) or the 30 s timer
\* of the handler (the request was answered)
Abandoned(a) ==
  /\ attempts[a].pc \notin {"none", "resolved", "rejected"}
  /\ \/ credential[a[1]] > a[2]
     \/ autoFetchPc[a[1]] = "rejected"
     \/ handlerPc[a[1]] = "responded"

\* C29: at most one fetchConfiguration call operates on the single SSH client
\* of the RouterDetector at any time: a call abandoned by the 5 s timer of
\* autoFetch or by the 30 s timer of the handler, or a call of another
\* request, performs no connect, execCommand or dispose on the client that
\* could interleave with the current call.
C29_ExclusiveClient ==
  /\ Cardinality({a \in Attempts : Operating(a)}) <= 1
  /\ \A a \in Attempts : Abandoned(a) => ~Operating(a)

\* the three ways of the claim, each taken alone
NoSupersededAttemptOperates ==
  \A a \in Attempts : (credential[a[1]] > a[2]) => ~Operating(a)

NoAnsweredRequestOperates ==
  \A a \in Attempts : handlerPc[a[1]] = "responded" => ~Operating(a)

NoTwoRequestsOperate ==
  \A a, b \in Attempts : (Operating(a) /\ Operating(b)) => a[1] = b[1]

\* the connection one call collects over is never closed by another call
NoForeignDispose ==
  \A a, b \in Attempts :
    (attempts[a].pc = "exec" /\ attempts[b].pc \in {"dispose", "cleanup"}) => a = b

(***************************************************************************)
(* The SSH client of the DeviceConnector.                                  *)
(***************************************************************************)
\* no fetchViaSSH call is under way
FetchOver == rtPc # "fetching"

\* the reply to a request whose connect succeeded and whose command failed
CommandFailed ==
  /\ Responded
  /\ request.path = "/api/devices/connect"
  /\ StartsWith(response.error, "SSH fetch failed: Failed to fetch config")

\* C30: whenever DeviceConnector.fetchViaSSH has returned or thrown after its
\* connect succeeded, the SSH client is disconnected: a failure of
\* getRunningConfig never leaves the connection of the connector open for the
\* next request.
C30_Disconnected == FetchOver => ~connectorSsh

\* what happens instead: after every failure of getRunningConfig the client
\* is still connected
LeftOpenAfterFailure == CommandFailed => connectorSsh

\* a fetch that succeeds does disconnect
DisconnectedAfterSuccess ==
  (Responded /\ request.path = "/api/devices/connect" /\ engineArg # NotInvoked)
    => ~connectorSsh

====
